---- MODULE Spec2Model ----
(***************************************************************************)
(* Strength-training PR tracker (src/src/pages/Dashboard.tsx and           *)
(* src/src/services/livingAppsService.ts).                                 *)
(*                                                                         *)
(* Conventions of the model                                                *)
(*  - An optional JavaScript value (a field that may be undefined, a       *)
(*    result that may be null, a number that may be NaN) is a sequence of  *)
(*    length 0 or 1: None is <<>>, Some(v) is <<v>>.                       *)
(*  - A string that the code takes apart (a record URL, a record id) is a  *)
(*    sequence of one-character strings.                                   *)
(*  - A date string is a record [ymd, time]: ymd is Some(day number) for a *)
(*    text that starts with a well-formed YYYY-MM-DD and None for a text   *)
(*    that is no date; time is Some(minutes) when a 'T..' part follows.    *)
(*    Day 0 is Thursday 1970-01-01; times are minutes since then, and all  *)
(*    clocks are UTC.                                                      *)
(*  - Weights are whole numbers of the unit the user types.                *)
(***************************************************************************)
EXTENDS Integers, Sequences, FiniteSets, TLC

VARIABLES
    storeUebungen,  \* the record store's exercises, in the order a fetch returns them
    store,          \* the record store's PR entries, in the order a fetch returns them
    now,            \* the day number 'new Date()' falls on
    loading,        \* Dashboard state 'loading'
    allPrEntries,   \* Dashboard state 'allPrEntries'
    exercises,      \* Dashboard state 'exercises' (ExerciseWithPRs[])
    recentPRs,      \* Dashboard state 'recentPRs'
    statsData,      \* the memoised statsData (None is null)
    call,           \* the arguments of the analyzePR call in progress
    prAnalysis,     \* the PRAnalysis it returned (None before it has returned)
    topUebungen,    \* what calculateTopUebungen passed to setTopUebungen (None before its call)
    selectedDate,   \* Dashboard state 'selectedDate' (None is null, else a day number)
    dayDetailOpen,  \* Dashboard state 'dayDetailOpen'
    dayCell,        \* the calendar cell rendered last (None before the first)
    refCall,        \* the argument of the extractRecordId call in progress
    refResult,      \* what it returned (None before it has returned)
    urlCall,        \* the arguments of the createRecordUrl call in progress
    formData,       \* Dashboard state 'formData' (a field that is '' is None)
    sheetOpen,      \* Dashboard state 'sheetOpen'
    view,           \* Dashboard state 'view'
    selectedExercise, \* Dashboard state 'selectedExercise' (None is null)
    toast,          \* the toast shown last (None before the first)
    showConfetti,   \* Dashboard state 'showConfetti'
    confettiKey,    \* Dashboard state 'confettiKey'
    submits,        \* the submit handlers that await their createPrEintraegeEntry
    runs,           \* the loadData runs and how far each has come
    submitting,     \* dialog Dashboard state 'submitting'
    dialogOpen,     \* dialog Dashboard state 'dialogOpen'
    error,          \* dialog Dashboard state 'error' (None is null)
    alerted,        \* the text of the alert shown last (None before the first)
    dialogData      \* dialog Dashboard states 'uebungen', 'prEintraege', 'stats',
                    \* 'prHistory' and 'recentPRs'

viewVars == <<selectedDate, dayDetailOpen, dayCell>>

refVars == <<refCall, refResult, urlCall>>

sheetVars == <<formData, sheetOpen, view, selectedExercise, toast, showConfetti, confettiKey,
               submits, runs>>

dialogVars == <<submitting, dialogOpen, error, alerted, dialogData>>

vars == <<storeUebungen, store, now, loading, allPrEntries, exercises, recentPRs, statsData,
          call, prAnalysis, topUebungen, viewVars, refVars, sheetVars, dialogVars>>

----------------------------------------------------------------------------
(* Optional values *)

None == <<>>

Some(v) == <<v>>

\* x || 0 for an optional number: undefined and 0 both give 0
OrZero(x) == IF x = None THEN 0 ELSE x[1]

\* Math.max(...xs) for a non-empty sequence of numbers
RECURSIVE MathMax(_)
MathMax(xs) ==
    IF Len(xs) = 1 THEN xs[1]
    ELSE LET m == MathMax(Tail(xs)) IN IF xs[1] > m THEN xs[1] ELSE m

\* every sequence over S of length at most n
SeqsUpTo(S, n) == UNION {[1..k -> S] : k \in 0..n}

----------------------------------------------------------------------------
(* analyzePR *)

weightOf(e) == OrZero(e.weight_kg)

volumeOf(e) == OrZero(e.weight_kg) * OrZero(e.reps)

repsOf(e) == OrZero(e.reps)

\* entries.map(e => e.fields.weight_kg || 0)
weightsOf(entries) == [i \in 1..Len(entries) |-> weightOf(entries[i])]

\* entries.map(e => (e.fields.weight_kg || 0) * (e.fields.reps || 0))
volumesOf(entries) == [i \in 1..Len(entries) |-> volumeOf(entries[i])]

\* entries.map(e => e.fields.reps || 0)
repsListOf(entries) == [i \in 1..Len(entries) |-> repsOf(entries[i])]

\* previousEntries[0] taken as the heaviest
maxWeight_first(previousEntries) == weightOf(previousEntries[1])

maxWeight(previousEntries) == MathMax(weightsOf(previousEntries))

maxVolume(previousEntries) == MathMax(volumesOf(previousEntries))

\* e.fields.weight_kg === newWeight: a missing weight equals no number
sameWeight(previousEntries, newWeight) ==
    LET atWeight(e) == e.weight_kg = Some(newWeight)
    IN  SelectSeq(previousEntries, atWeight)

maxRepsAtWeight_overall(previousEntries, newWeight) ==
    MathMax(repsListOf(previousEntries))

maxRepsAtWeight(previousEntries, newWeight) ==
    LET sw == sameWeight(previousEntries, newWeight)
    IN  IF Len(sw) > 0 THEN MathMax(repsListOf(sw)) ELSE 0

\* the empty history answers 'no rep PR' instead of 'everything is a PR'
emptyAnalysis_noRep ==
    [isWeightPR |-> TRUE, isRepPR |-> FALSE, isVolumePR |-> TRUE,
     previousBest |-> [weight |-> 0, reps |-> 0, volume |-> 0]]

emptyAnalysis ==
    [isWeightPR |-> TRUE, isRepPR |-> TRUE, isVolumePR |-> TRUE,
     previousBest |-> [weight |-> 0, reps |-> 0, volume |-> 0]]

\* the rep comparison without '&& sameWeight.length > 0'
isRepPR_noSubsetTest(newWeight, newReps, previousEntries) ==
    newReps > maxRepsAtWeight(previousEntries, newWeight)

isRepPR(newWeight, newReps, previousEntries) ==
    /\ newReps > maxRepsAtWeight(previousEntries, newWeight)
    /\ Len(sameWeight(previousEntries, newWeight)) > 0

\* '>=' where the code has '>'
isWeightPR_ge(newWeight, previousEntries) == newWeight >= maxWeight(previousEntries)

isWeightPR(newWeight, previousEntries) == newWeight > maxWeight(previousEntries)

\* '>=' where the code has '>'
isVolumePR_ge(newWeight, newReps, previousEntries) ==
    newWeight * newReps >= maxVolume(previousEntries)

isVolumePR(newWeight, newReps, previousEntries) ==
    LET newVolume == newWeight * newReps
    IN  newVolume > maxVolume(previousEntries)

analyzePR(newWeight, newReps, previousEntries) ==
    IF Len(previousEntries) = 0 THEN emptyAnalysis
    ELSE     [isWeightPR |-> isWeightPR(newWeight, previousEntries),
              isRepPR    |-> isRepPR(newWeight, newReps, previousEntries),
              isVolumePR |-> isVolumePR(newWeight, newReps, previousEntries),
              previousBest |->
                  [weight |-> maxWeight(previousEntries),
                   reps   |-> maxRepsAtWeight(previousEntries, newWeight),
                   volume |-> maxVolume(previousEntries)]]

----------------------------------------------------------------------------
(* Record ids and record URLs (livingAppsService.ts) *)

IdLen == 24

\* the character class without the i flag
HexChars_lower ==
    {"0", "1", "2", "3", "4", "5", "6", "7", "8", "9", "a", "b", "c", "d", "e", "f"}

HexChars ==
    {"0", "1", "2", "3", "4", "5", "6", "7", "8", "9",
     "a", "b", "c", "d", "e", "f", "A", "B", "C", "D", "E", "F"}

\* the last n characters of s (s itself when it is shorter)
LastChars(s, n) == IF Len(s) <= n THEN s ELSE SubSeq(s, Len(s) - n + 1, Len(s))

\* url.match(/([a-f0-9]{24})$/i): the match, or None
extractRecordId(url) ==
    IF url = None \/ url[1] = <<>> THEN None
    ELSE LET s == url[1]
             tail == LastChars(s, IdLen)
         IN  IF Len(s) >= IdLen /\ \A i \in 1..Len(tail) : tail[i] \in HexChars
             THEN Some(tail)
             ELSE None

ApiRecordsPrefix ==
    <<"h", "t", "t", "p", "s", ":", "/", "/", "m", "y", ".", "l", "i", "v", "i", "n",
      "g", "-", "a", "p", "p", "s", ".", "d", "e", "/", "r", "e", "s", "t", "/", "a",
      "p", "p", "s", "/">>

createRecordUrl(appId, recordId) ==
    ApiRecordsPrefix \o appId \o <<"/", "r", "e", "c", "o", "r", "d", "s", "/">> \o recordId

APP_ID_UEBUNGEN ==
    <<"6", "9", "4", "d", "7", "7", "f", "2", "e", "f", "6", "9", "6", "e", "8", "b",
      "f", "f", "2", "1", "2", "8", "7", "d">>

----------------------------------------------------------------------------
(* Calendar: day 0 is Thursday 1970-01-01 (UTC) *)

\* leap years before year y (proleptic Gregorian count)
LeapsBefore(y) == ((y - 1) \div 4) - ((y - 1) \div 100) + ((y - 1) \div 400)

\* the day number of 1 January of year y
Jan1(y) == 365 * (y - 1970) + (LeapsBefore(y) - LeapsBefore(1970))

\* Date.prototype.getFullYear
RECURSIVE YearFrom(_, _)
YearFrom(d, y) ==
    IF d < Jan1(y) THEN YearFrom(d, y - 1)
    ELSE IF d >= Jan1(y + 1) THEN YearFrom(d, y + 1)
    ELSE y

getFullYear(d) == YearFrom(d, 1970 + (d \div 365))

\* date-fns startOfWeek(date, { weekStartsOn: 1 }): the Monday on or before d
\* (day 0 is a Thursday, three days after a Monday)
startOfWeek(d) == d - ((d + 3) % 7)

\* date-fns getWeekYear(date, { weekStartsOn: 1 }) with firstWeekContainsDate = 1
getWeekYear(d) ==
    LET year == getFullYear(d)
        startOfNextYear == startOfWeek(Jan1(year + 1))
        startOfThisYear == startOfWeek(Jan1(year))
    IN  IF d >= startOfNextYear THEN year + 1
        ELSE IF d >= startOfThisYear THEN year
        ELSE year - 1

\* date-fns startOfWeekYear
startOfWeekYear(d) == startOfWeek(Jan1(getWeekYear(d)))

\* date-fns getWeek(date, { weekStartsOn: 1 })
getWeek(d) == ((startOfWeek(d) - startOfWeekYear(d)) \div 7) + 1

----------------------------------------------------------------------------
(* Date strings *)

\* "YYYY-MM-DD" for day d, and the same with a time of day of m minutes
DateOnly(d) == [ymd |-> Some(d), time |-> None]

DateTime(d, m) == [ymd |-> Some(d), time |-> Some(m)]

\* a text that is no date
NoDate == [ymd |-> None, time |-> None]

\* str.split('T')[0]
SplitT(str) == [ymd |-> str.ymd, time |-> None]

\* new Date(str).getTime(), in minutes; None is NaN
getTime(str) ==
    IF str.ymd = None THEN None
    ELSE Some(str.ymd[1] * (24 * 60) + OrZero(str.time))

\* a.fields.date ? new Date(a.fields.date).getTime() : 0
dateKey(e) == IF e.date = None THEN Some(0) ELSE getTime(e.date[1])

----------------------------------------------------------------------------
(* Array.prototype.sort with a comparator on dateKey *)

\* A comparator that returns NaN for a pair is taken as 0 for it. It is a
\* consistent comparator when no key is NaN or all the other keys are equal;
\* otherwise the order sort() produces is implementation-defined.
ConsistentKeys(xs) ==
    LET keys == {dateKey(xs[i]) : i \in 1..Len(xs)}
    IN  None \notin keys \/ Cardinality(keys \ {None}) <= 1

\* the comparator puts a strictly before b
Precedes(a, b, descending) ==
    LET ka == dateKey(a)
        kb == dateKey(b)
    IN  /\ ka # None
        /\ kb # None
        /\ IF descending THEN ka[1] > kb[1] ELSE ka[1] < kb[1]

\* x put into the sorted xs in front of the elements it ties with: a sort
\* that is not stable
RECURSIVE Insert_beforeEqual(_, _, _)
Insert_beforeEqual(xs, x, descending) ==
    IF xs = <<>> THEN <<x>>
    ELSE IF ~Precedes(Head(xs), x, descending) THEN <<x>> \o xs
    ELSE <<Head(xs)>> \o Insert_beforeEqual(Tail(xs), x, descending)

\* x put into the sorted xs behind every element it does not strictly precede
RECURSIVE Insert(_, _, _)
Insert(xs, x, descending) ==
    IF xs = <<>> THEN <<x>>
    ELSE IF Precedes(x, Head(xs), descending) THEN <<x>> \o xs
    ELSE <<Head(xs)>> \o Insert(Tail(xs), x, descending)

\* the stable sort
RECURSIVE StableSort(_, _)
StableSort(xs, descending) ==
    IF xs = <<>> THEN <<>>
    ELSE Insert(StableSort(SubSeq(xs, 1, Len(xs) - 1), descending), xs[Len(xs)], descending)

PermutationsOf(xs) ==
    LET n == Len(xs)
        perms == {p \in [1..n -> 1..n] : \A i, j \in 1..n : p[i] = p[j] => i = j}
    IN  {[i \in 1..n |-> xs[p[i]]] : p \in perms}

\* what xs.sort(byDate) may leave in xs
SortOutcomes(xs, descending) ==
    IF ConsistentKeys(xs) THEN {StableSort(xs, descending)} ELSE PermutationsOf(xs)

----------------------------------------------------------------------------
(* The record store *)

Rep(c, n) == [i \in 1..n |-> c]

\* the record ids of the two exercises of the store
IdA == Rep("a", IdLen)

IdB == Rep("B", IdLen)

RefA == Some(createRecordUrl(APP_ID_UEBUNGEN, IdA))

RefB == Some(createRecordUrl(APP_ID_UEBUNGEN, IdB))

\* what LivingAppsService.getUebungen() returns
uebungenStore ==
    << [record_id |-> IdA, name |-> Some("Bankdruecken")],
       [record_id |-> IdB, name |-> Some("Kniebeuge")] >>

\* a store of six exercises
IdC == Rep("c", IdLen)

IdD == Rep("d", IdLen)

IdE == Rep("e", IdLen)

IdF == Rep("f", IdLen)

uebungenSix ==
    uebungenStore \o
    << [record_id |-> IdC, name |-> Some("Kreuzheben")],
       [record_id |-> IdD, name |-> Some("Schulterdruecken")],
       [record_id |-> IdE, name |-> Some("Rudern")],
       [record_id |-> IdF, name |-> None] >>

\* the reference a stored entry holds to the exercise with record id id
RefTo(id) == Some(createRecordUrl(APP_ID_UEBUNGEN, id))

\* a PR entry of the store: rows[i] = <<exercise_id, date, weight_kg, reps>>
MkEntries(rows) ==
    [i \in 1..Len(rows) |->
        [record_id |-> i, exercise_id |-> rows[i][1], date |-> rows[i][2],
         weight_kg |-> rows[i][3], reps |-> rows[i][4]]]

----------------------------------------------------------------------------
(* loadData *)

\* reduce((max, pr) => Math.max(max, f(pr)), 0)
RECURSIVE ReduceMax(_, _)
ReduceMax(xs, max) ==
    IF xs = <<>> THEN max
    ELSE ReduceMax(Tail(xs), IF Head(xs) > max THEN Head(xs) ELSE max)

\* the filter comparing the ids without regard to case
exercisePRsOf_anyCase(ex, prEintraege) ==
    LET lower(c) == IF c = "A" THEN "a" ELSE IF c = "B" THEN "b" ELSE c
        fold(id) == [i \in 1..Len(id) |-> lower(id[i])]
        ofEx(pr) == LET exId == extractRecordId(pr.exercise_id)
                    IN  exId # None /\ fold(exId[1]) = fold(ex.record_id)
    IN  SelectSeq(prEintraege, ofEx)

\* the entries of prEintraege whose reference resolves to ex
exercisePRsOf(ex, prEintraege) ==
    LET ofEx(pr) == extractRecordId(pr.exercise_id) = Some(ex.record_id)
    IN  SelectSeq(prEintraege, ofEx)

\* the ExerciseWithPRs built from ex and its sorted entries
withPRs(ex, exercisePRs) ==
    LET bestKg == ReduceMax(weightsOf(exercisePRs), 0)
        bestReps == ReduceMax(repsListOf(exercisePRs), 0)
    IN  [record_id |-> ex.record_id,
         name      |-> ex.name,
         prs       |-> exercisePRs,
         bestKg    |-> IF bestKg > 0 THEN Some(bestKg) ELSE None,
         bestReps  |-> IF bestReps > 0 THEN Some(bestReps) ELSE None,
         lastPR    |-> IF exercisePRs = <<>> THEN None ELSE Some(exercisePRs[1])]

\* every ExerciseWithPRs the map callback can return for ex
exerciseOutcomes(ex, prEintraege) ==
    {withPRs(ex, prs) : prs \in SortOutcomes(exercisePRsOf(ex, prEintraege), TRUE)}

\* every value uebungen.map(...) can take for the first k exercises
RECURSIVE mapOutcomes(_, _, _)
mapOutcomes(uebungen, prEintraege, k) ==
    IF k = 0 THEN {<<>>}
    ELSE {Append(done, ex) :
            done \in mapOutcomes(uebungen, prEintraege, k - 1),
            ex \in exerciseOutcomes(uebungen[k], prEintraege)}

\* every value exercisesWithPRs can take
exercisesWithPRsOutcomes(uebungen, prEintraege) ==
    mapOutcomes(uebungen, prEintraege, Len(uebungen))

RecentLimit == 10

\* uebungen.find((ex) => ex.record_id === exId)?.fields.name || fallback
exerciseNameOf(uebungen, exId, fallback) ==
    LET hits == {i \in 1..Len(uebungen) : Some(uebungen[i].record_id) = exId}
    IN  IF hits = {} THEN fallback
        ELSE LET ex == uebungen[CHOOSE i \in hits : \A j \in hits : i <= j]
             IN  IF ex.name = None THEN fallback ELSE ex.name[1]

\* sorted.slice(0, 10).map(pr => ({ ...pr, exerciseName }))
recentOf(uebungen, sorted) ==
    LET first == SubSeq(sorted, 1, IF Len(sorted) < RecentLimit THEN Len(sorted) ELSE RecentLimit)
    IN  [i \in 1..Len(first) |->
            [pr |-> first[i],
             exerciseName |->
                 exerciseNameOf(uebungen, extractRecordId(first[i].exercise_id),
                                "Unbekannte Uebung")]]

----------------------------------------------------------------------------
(* statsData *)

\* new Set(allPrEntries.map(pr => pr.fields.date?.split('T')[0]).filter(Boolean))
uniqueDatesOf(entries) ==
    {SplitT(entries[i].date[1]) : i \in {j \in 1..Len(entries) : entries[j].date # None}}

\* Array.from(uniqueDates).sort()[0]: the first text in string order. Date
\* texts YYYY-MM-DD are in string order when in day order; where a text that
\* is no date falls among them depends on the text, so either may be first.
\* None is undefined (no date text at all).
firstSortedDates(uniqueDates) ==
    LET days == {s.ymd[1] : s \in {u \in uniqueDates : u.ymd # None}}
        least == {DateOnly(d) : d \in {m \in days : \A x \in days : m <= x}}
    IN  IF uniqueDates = {} THEN {None}
        ELSE {Some(s) : s \in least \cup (uniqueDates \cap {NoDate})}

\* differenceInDays(new Date(), firstDate): the full days from firstDate (UTC
\* midnight of day date) to now, truncated towards 0, now being the noon of today
differenceInDays(today, date) ==
    IF date <= today THEN today - date ELSE today - date + 1

\* Math.ceil(daysSinceFirst / 7) without the ceiling: the whole weeks only
weeksActive_floor(daysSinceFirst) ==
    LET weeks == daysSinceFirst \div 7 IN IF weeks > 1 THEN weeks ELSE 1

\* Math.max(1, Math.ceil(daysSinceFirst / 7))
weeksActive(daysSinceFirst) ==
    LET weeks == (daysSinceFirst + 6) \div 7 IN IF weeks > 1 THEN weeks ELSE 1

\* Math.max(1, differenceInDays(new Date(), firstDate)); None is NaN
daysSinceFirst(first, today) ==
    IF first = None THEN Some(1)
    ELSE IF first[1].ymd = None THEN None
    ELSE LET days == differenceInDays(today, first[1].ymd[1])
         IN  Some(IF days > 1 THEN days ELSE 1)

\* (num / den).toFixed(1) in tenths, for num >= 0 and den > 0. A tie x.x5 is
\* rounded up when the double holds it exactly, which it does for den < 20.
toFixed1(num, den) == (20 * num + den) \div (2 * den)

\* every value of sessionsPerWeek, in tenths; None is "NaN"
sessionsPerWeekOutcomes(uniqueDates, today) ==
    {LET days == daysSinceFirst(first, today)
     IN  IF days = None THEN None
         ELSE Some(toFixed1(Cardinality(uniqueDates), weeksActive(days[1]))) :
       first \in firstSortedDates(uniqueDates)}

\* year * 100 + weekNum of a date string; None is NaN
weekKeyOf(dateStr) ==
    IF dateStr.ymd = None THEN None
    ELSE LET date == dateStr.ymd[1]
         IN  Some(getFullYear(date) * 100 + getWeek(date))

\* weeklyTraining: week key -> number of the unique dates with that key
weeklyTrainingOf(uniqueDates) ==
    [key \in {weekKeyOf(s) : s \in uniqueDates} |->
        Cardinality({s \in uniqueDates : weekKeyOf(s) = key})]

\* weeklyTraining[key] >= 1
hasTraining(weeklyTraining, key) ==
    Some(key) \in DOMAIN weeklyTraining /\ weeklyTraining[Some(key)] >= 1

MaxStreakWeeks == 52

LastWeekOfYear == 52

\* the week key the walk starts at
startWeekKey(weeklyTraining, today) ==
    LET currentWeekNum == getWeek(today)
        currentYear == getFullYear(today)
        currentWeekKey == currentYear * 100 + currentWeekNum
    IN  IF hasTraining(weeklyTraining, currentWeekKey) THEN currentWeekKey
        ELSE IF currentWeekNum = 1 THEN (currentYear - 1) * 100 + LastWeekOfYear
        ELSE currentYear * 100 + (currentWeekNum - 1)

\* the for loop: i iterations done, currentStreak counted so far
RECURSIVE streakLoop(_, _, _, _, _)
streakLoop(weeklyTraining, i, checkYear, checkWeek, currentStreak) ==
    IF i >= MaxStreakWeeks THEN currentStreak
    ELSE IF hasTraining(weeklyTraining, checkYear * 100 + checkWeek)
         THEN IF checkWeek - 1 < 1
              THEN streakLoop(weeklyTraining, i + 1, checkYear - 1, LastWeekOfYear,
                              currentStreak + 1)
              ELSE streakLoop(weeklyTraining, i + 1, checkYear, checkWeek - 1,
                              currentStreak + 1)
         ELSE currentStreak

currentStreakOf(uniqueDates, today) ==
    LET weeklyTraining == weeklyTrainingOf(uniqueDates)
        currentWeekKey == startWeekKey(weeklyTraining, today)
    IN  streakLoop(weeklyTraining, 0, currentWeekKey \div 100, currentWeekKey % 100, 0)

\* the exercise ids of entriesByExercise, in the order its keys were inserted
RECURSIVE groupKeys(_, _)
groupKeys(entries, seen) ==
    IF entries = <<>> THEN <<>>
    ELSE LET exId == extractRecordId(Head(entries).exercise_id)
         IN  IF exId = None \/ exId \in seen THEN groupKeys(Tail(entries), seen)
             ELSE <<exId>> \o groupKeys(Tail(entries), seen \cup {exId})

\* Object.values(entriesByExercise)
entriesByExercise(entries) ==
    LET keys == groupKeys(entries, {})
    IN  [k \in 1..Len(keys) |->
            LET inGroup(pr) == extractRecordId(pr.exercise_id) = keys[k]
            IN  SelectSeq(entries, inGroup)]

\* the pairs <<item, count>> of xs with x put behind every pair whose count is
\* not smaller: one step of the stable sort by count, largest first
RECURSIVE InsertByCount(_, _)
InsertByCount(xs, x) ==
    IF xs = <<>> THEN <<x>>
    ELSE IF x[2] > Head(xs)[2] THEN <<x>> \o xs
    ELSE <<Head(xs)>> \o InsertByCount(Tail(xs), x)

\* xs.sort((a, b) => b[1] - a[1]) on pairs <<item, count>>
RECURSIVE SortByCount(_)
SortByCount(xs) ==
    IF xs = <<>> THEN <<>>
    ELSE InsertByCount(SortByCount(SubSeq(xs, 1, Len(xs) - 1)), xs[Len(xs)])

TopLimit == 5

\* xs.slice(0, n)
Slice(xs, n) == SubSeq(xs, 1, IF Len(xs) < n THEN Len(xs) ELSE n)

\* Object.entries(exerciseFrequency): the resolved ids in the order of their
\* first entry, each with the number of its entries
exerciseFrequency(entries) ==
    LET keys == groupKeys(entries, {})
    IN  [k \in 1..Len(keys) |->
            <<keys[k][1],
              Cardinality({i \in 1..Len(entries) :
                             extractRecordId(entries[i].exercise_id) = keys[k]})>>]

\* the ids of the five most frequent entries of exerciseFrequency
topExerciseIds(entries) ==
    LET top == Slice(SortByCount(exerciseFrequency(entries)), TopLimit)
    IN  {top[i][1] : i \in 1..Len(top)}

\* exercises.filter((ex) => topExerciseIds.includes(ex.record_id))
topExercisesOf(exercisesWithPRs, entries) ==
    LET isTop(ex) == ex.record_id \in topExerciseIds(entries)
    IN  SelectSeq(exercisesWithPRs, isTop)

\* sorted[0] without the sort: the first entry as grouped
firstWeights_unsorted(group) == {weightOf(group[1])}

\* every weight sorted[0] can have after entries.sort(oldest first)
firstWeights(group) == {weightOf(sorted[1]) : sorted \in SortOutcomes(group, FALSE)}

\* entries.length < 2 returns early
qualifies(group) == Len(group) >= 2

\* the totals after the groups from k on: totalGainPercent = num / den, exercisesWithGain = n
RECURSIVE gainTotals(_, _, _)
gainTotals(groups, k, acc) ==
    IF k > Len(groups) THEN {acc}
    ELSE IF ~qualifies(groups[k]) THEN gainTotals(groups, k + 1, acc)
    ELSE LET currentBestWeight == MathMax(weightsOf(groups[k]))
         IN  UNION {
               IF firstWeight > 0 /\ currentBestWeight > firstWeight
               THEN gainTotals(groups, k + 1,
                        [num |-> acc.num * firstWeight
                                   + (currentBestWeight - firstWeight) * 100 * acc.den,
                         den |-> acc.den * firstWeight,
                         n   |-> acc.n + 1])
               ELSE gainTotals(groups, k + 1, acc)
               : firstWeight \in firstWeights(groups[k])}

\* Math.round(num / den) for num >= 0, den > 0
MathRound(num, den) == (2 * num + den) \div (2 * den)

\* Math.round(totalGainPercent / exercisesWithGain * 10), the tenths of strengthGainPercent
strengthGainTenths(totals) ==
    IF totals.n > 0 THEN MathRound(totals.num * 10, totals.den * totals.n) ELSE 0

\* every value the memo can take; sessionsPerWeek and strengthGainPercent are
\* held in tenths
statsDataOutcomes(entries, exercisesWithPRs, today) ==
    IF Len(entries) = 0 THEN {None}
    ELSE LET uniqueDates == uniqueDatesOf(entries)
         IN  {Some([totalSessions       |-> Cardinality(uniqueDates),
                    sessionsPerWeek     |-> perWeek,
                    topExercises        |-> topExercisesOf(exercisesWithPRs, entries),
                    strengthGainPercent |-> strengthGainTenths(totals),
                    currentStreak       |-> currentStreakOf(uniqueDates, today)]) :
                 totals \in gainTotals(entriesByExercise(entries), 1,
                                       [num |-> 0, den |-> 1, n |-> 0]),
                 perWeek \in sessionsPerWeekOutcomes(uniqueDates, today)}

----------------------------------------------------------------------------
(* calculateTopUebungen *)

\* Object.values(uebungStats) after the counting: one record per exercise, in
\* the order of uebungenData, prCount the number of entries that resolve to
\* it (the lastPR field, which nothing here reads, is left out)
uebungStats(uebungenData, prEintraegeData) ==
    [k \in 1..Len(uebungenData) |->
        [name    |-> IF uebungenData[k].name = None THEN "Unbenannte Uebung"
                     ELSE uebungenData[k].name[1],
         prCount |-> Cardinality({i \in 1..Len(prEintraegeData) :
                        extractRecordId(prEintraegeData[i].exercise_id)
                            = Some(uebungenData[k].record_id)})]]

\* the value calculateTopUebungen hands to setTopUebungen
calculateTopUebungen(uebungenData, prEintraegeData) ==
    LET stats == uebungStats(uebungenData, prEintraegeData)
        sorted == SortByCount([k \in 1..Len(stats) |-> <<stats[k], stats[k].prCount>>])
        topData == Slice(sorted, TopLimit)
    IN  [k \in 1..Len(topData) |-> topData[k][1]]

----------------------------------------------------------------------------
(* The calendar: prsByDate, getHeatmapIntensity, prsForSelectedDate *)

\* the memo prsByDate: one bucket for every non-empty date?.split('T')[0],
\* holding the entries with that text in the order of entries
prsByDateOf(entries) ==
    [date \in uniqueDatesOf(entries) |->
        LET onDate(pr) == pr.date # None /\ SplitT(pr.date[1]) = date
        IN  SelectSeq(entries, onDate)]

\* prsByDate[dateStr]?.length || 0
bucketLength(grouped, dateStr) ==
    IF dateStr \in DOMAIN grouped THEN Len(grouped[dateStr]) ELSE 0

\* the steps set one entry lower
getHeatmapIntensity_shifted(grouped, dateStr) ==
    LET count == bucketLength(grouped, dateStr)
    IN  IF count = 0 THEN "none"
        ELSE IF count < 2 THEN "low"
        ELSE IF count < 4 THEN "medium"
        ELSE "high"

getHeatmapIntensity(grouped, dateStr) ==
    LET count == bucketLength(grouped, dateStr)
    IN  IF count = 0 THEN "none"
        ELSE IF count <= 2 THEN "low"
        ELSE IF count <= 4 THEN "medium"
        ELSE "high"

\* format(day, 'yyyy-MM-dd')
format(day) == DateOnly(day)

\* the day detail without the entries whose exercise is not found
prsForSelectedDateOf_resolved(selected, grouped, exercisesWithPRs) ==
    IF selected = None THEN <<>>
    ELSE LET dateStr == format(selected[1])
             bucket == IF dateStr \in DOMAIN grouped THEN grouped[dateStr] ELSE <<>>
             found(pr) == \E k \in 1..Len(exercisesWithPRs) :
                              Some(exercisesWithPRs[k].record_id)
                                  = extractRecordId(pr.exercise_id)
             known == SelectSeq(bucket, found)
         IN  [i \in 1..Len(known) |->
                 [pr |-> known[i],
                  exerciseName |->
                      exerciseNameOf(exercisesWithPRs,
                                     extractRecordId(known[i].exercise_id), "Unbekannt")]]

\* the memo prsForSelectedDate
prsForSelectedDateOf(selected, grouped, exercisesWithPRs) ==
    IF selected = None THEN <<>>
    ELSE LET dateStr == format(selected[1])
             bucket == IF dateStr \in DOMAIN grouped THEN grouped[dateStr] ELSE <<>>
         IN  [i \in 1..Len(bucket) |->
                 [pr |-> bucket[i],
                  exerciseName |->
                      exerciseNameOf(exercisesWithPRs,
                                     extractRecordId(bucket[i].exercise_id), "Unbekannt")]]

prsByDate == prsByDateOf(allPrEntries)

prsForSelectedDate == prsForSelectedDateOf(selectedDate, prsByDate, exercises)

----------------------------------------------------------------------------
(* Actions *)

\* lines 162-209 of loadData on the fetched uebungen and prEintraege:
\* prEintraege is the fetched array, which setAllPrEntries stores and the later
\* prEintraege.sort(...) reorders in place; statsData is the memo on the new
\* allPrEntries and exercises
StoreLoaded(uebungen, prEintraege) ==
    \E sorted \in SortOutcomes(prEintraege, TRUE) :
    \E exercisesWithPRs \in exercisesWithPRsOutcomes(uebungen, prEintraege) :
        /\ allPrEntries' = sorted
        /\ exercises' = exercisesWithPRs
        /\ recentPRs' = recentOf(uebungen, sorted)
        /\ statsData' \in statsDataOutcomes(sorted, exercisesWithPRs, now)

\* loadData as run once when the Dashboard mounts (loading is TRUE until it
\* ends), both fetches succeeding and nothing else happening meanwhile
loadDataOk ==
    /\ loading
    /\ StoreLoaded(storeUebungen, store)
    /\ loading' = FALSE
    /\ UNCHANGED <<storeUebungen, store, now, call, prAnalysis, topUebungen, viewVars, refVars, sheetVars, dialogVars>>

\* loadData, a fetch failing: the catch block reports it, finally clears loading
loadDataFail ==
    /\ loading
    /\ loading' = FALSE
    /\ UNCHANGED <<storeUebungen, store, now, allPrEntries, exercises, recentPRs, statsData,
                   call, prAnalysis, topUebungen, viewVars, refVars, sheetVars, dialogVars>>

\* one call of analyzePR
AnalyzePR ==
    /\ call # None
    /\ prAnalysis = None
    /\ prAnalysis' = Some(analyzePR(call[1].newWeight, call[1].newReps,
                                    call[1].previousEntries))
    /\ UNCHANGED <<storeUebungen, store, now, loading, allPrEntries, exercises, recentPRs,
                   statsData, call, topUebungen, viewVars, refVars, sheetVars, dialogVars>>

\* one call of calculateTopUebungen on the fetched collections
CalculateTopUebungen ==
    /\ topUebungen = None
    /\ topUebungen' = Some(calculateTopUebungen(storeUebungen, store))
    /\ UNCHANGED <<storeUebungen, store, now, loading, allPrEntries, exercises, recentPRs,
                   statsData, call, prAnalysis, viewVars, refVars, sheetVars, dialogVars>>

\* the days the calendar shows
CalendarDays == {20079, 20080, 20081}

\* the calendar renders the cell of one day; nothing but the loading screen
\* is rendered while loading
RenderDay ==
    /\ ~loading
    /\ \E day \in CalendarDays :
           dayCell' = Some([dateStr   |-> format(day),
                            intensity |-> getHeatmapIntensity(prsByDate, format(day)),
                            hasPRs    |-> bucketLength(prsByDate, format(day)) > 0])
    /\ UNCHANGED <<storeUebungen, store, now, loading, allPrEntries, exercises, recentPRs,
                   statsData, call, prAnalysis, topUebungen, selectedDate, dayDetailOpen,
                   refVars, sheetVars, dialogVars>>

\* a click on the cell of a day; the button is disabled for a day without entries
openDayDetail ==
    /\ ~loading
    /\ \E day \in CalendarDays :
           /\ bucketLength(prsByDate, format(day)) > 0
           /\ selectedDate' = Some(day)
    /\ dayDetailOpen' = TRUE
    /\ UNCHANGED <<storeUebungen, store, now, loading, allPrEntries, exercises, recentPRs,
                   statsData, call, prAnalysis, topUebungen, dayCell, refVars, sheetVars, dialogVars>>

\* one call of extractRecordId
ExtractRecordId ==
    /\ refCall # None
    /\ refResult = None
    /\ refResult' = Some(extractRecordId(refCall[1].url))
    /\ UNCHANGED <<storeUebungen, store, now, loading, allPrEntries, exercises, recentPRs,
                   statsData, call, prAnalysis, topUebungen, viewVars, refCall, urlCall,
                   sheetVars, dialogVars>>

\* one call of createRecordUrl, whose result is handed to extractRecordId
CreateRecordUrl ==
    /\ urlCall # None
    /\ refCall = None
    /\ refCall' = Some([url |-> Some(createRecordUrl(urlCall[1].appId, urlCall[1].recordId))])
    /\ UNCHANGED <<storeUebungen, store, now, loading, allPrEntries, exercises, recentPRs,
                   statsData, call, prAnalysis, topUebungen, viewVars, refResult, urlCall,
                   sheetVars, dialogVars>>

----------------------------------------------------------------------------
(* The sheet's form *)

\* useState of formData: every field '' but the date, today, and sets, '1'
\* (the note, which nothing reads but the request, is left out)
formDataInit(today) ==
    [exercise_id |-> <<>>, date |-> Some(DateOnly(today)), weight_kg |-> None,
     reps |-> None, sets |-> Some(1)]

\* parseInt(prev[field] || '0') of a field that is empty or holds an integer
parseIntOrZero(value) == IF value = None THEN 0 ELSE value[1]

\* String(Math.max(1, parseInt(prev[field] || '0') + step)) without the Math.max
stepped_unclamped(value, step) == Some(parseIntOrZero(value) + step)

\* String(Math.max(1, parseInt(prev[field] || '0') + step))
stepped(value, step) == Some(MathMax(<<1, parseIntOrZero(value) + step>>))

MaxFieldValue == 8

\* incrementValue(field)
incrementValue(field) ==
    /\ parseIntOrZero(formData[field]) < MaxFieldValue
    /\ formData' = [formData EXCEPT ![field] = stepped(formData[field], 1)]
    /\ UNCHANGED <<storeUebungen, store, now, loading, allPrEntries, exercises, recentPRs,
                   statsData, call, prAnalysis, topUebungen, viewVars, refVars,
                   sheetOpen, view, selectedExercise, toast, showConfetti, confettiKey,
                   submits, runs, dialogVars>>

\* decrementValue(field)
decrementValue(field) ==
    /\ formData' = [formData EXCEPT ![field] = stepped(formData[field], -1)]
    /\ UNCHANGED <<storeUebungen, store, now, loading, allPrEntries, exercises, recentPRs,
                   statsData, call, prAnalysis, topUebungen, viewVars, refVars,
                   sheetOpen, view, selectedExercise, toast, showConfetti, confettiKey,
                   submits, runs, dialogVars>>

----------------------------------------------------------------------------
(* Requests to the record store (livingAppsService.ts) *)

\* a request that has not been answered, one answered with data, one that
\* callApi ended by throwing
Pending == [state |-> "pending", data |-> <<>>]

Answered(data) == [state |-> "ok", data |-> data]

Thrown == [state |-> "failed", data |-> <<>>]

\* a loadData run that has called setLoading(true) and awaits
\* Promise.all([getUebungen(), getPrEintraege()]); awaited tells whether a
\* handleSubmit of the dialog Dashboard awaits its end
loadDataRun(id, awaited) ==
    [id |-> id, uebungen |-> Pending, prEintraege |-> Pending, position |-> "awaiting",
     awaited |-> awaited]

\* the entry the store makes of the fields of a create request
createdEntry(entries, fields) ==
    [record_id |-> Len(entries) + 1, exercise_id |-> fields.exercise_id,
     date |-> fields.date, weight_kg |-> fields.weight_kg, reps |-> fields.reps]

\* set S with its element old replaced by new
Replaced(S, old, new) == (S \ {old}) \cup {new}

requestVars == <<loading, allPrEntries, exercises, recentPRs, statsData, topUebungen,
                 formData, sheetOpen, view, selectedExercise, toast, showConfetti,
                 confettiKey, dialogVars>>

\* getUebungen() of run r is answered
getUebungen(r) ==
    /\ r.position = "awaiting"
    /\ r.uebungen = Pending
    /\ runs' = Replaced(runs, r, [r EXCEPT !.uebungen = Answered(storeUebungen)])
    /\ UNCHANGED <<storeUebungen, store, now, call, prAnalysis, viewVars, refVars, submits,
                   requestVars>>

\* getPrEintraege() of run r is answered
getPrEintraege(r) ==
    /\ r.position = "awaiting"
    /\ r.prEintraege = Pending
    /\ runs' = Replaced(runs, r, [r EXCEPT !.prEintraege = Answered(store)])
    /\ UNCHANGED <<storeUebungen, store, now, call, prAnalysis, viewVars, refVars, submits,
                   requestVars>>

\* callApi throws in getUebungen() or in getPrEintraege() of run r
callApiThrows(r, request) ==
    /\ r.position = "awaiting"
    /\ r[request] = Pending
    /\ runs' = Replaced(runs, r, [r EXCEPT ![request] = Thrown])
    /\ UNCHANGED <<storeUebungen, store, now, call, prAnalysis, viewVars, refVars, submits,
                   requestVars>>

\* the store carries out the create request of submit s
createPrEintraegeEntry(s) ==
    /\ s.position = "creating"
    /\ ~s.stored
    /\ store' = Append(store, createdEntry(store, s.data))
    /\ submits' = Replaced(submits, s, [s EXCEPT !.stored = TRUE])
    /\ UNCHANGED <<storeUebungen, now, call, prAnalysis, viewVars, refVars, runs, requestVars>>

----------------------------------------------------------------------------
(* The sheet Dashboard: opening the sheet, typing, handleSubmitPR, loadData *)

\* openPRSheet(exerciseId); nothing but the loading screen is rendered while
\* loading
openPRSheet(exerciseId) ==
    /\ ~loading
    /\ formData' = [formDataInit(now) EXCEPT !.exercise_id = exerciseId]
    /\ sheetOpen' = TRUE
    /\ UNCHANGED <<storeUebungen, store, now, loading, allPrEntries, exercises, recentPRs,
                   statsData, call, prAnalysis, topUebungen, viewVars, refVars,
                   view, selectedExercise, toast, showConfetti, confettiKey,
                   submits, runs, dialogVars>>

\* the onChange handler of the weight or the reps input
onChange(field, value) ==
    /\ ~loading
    /\ sheetOpen
    /\ formData' = [formData EXCEPT ![field] = value]
    /\ UNCHANGED <<storeUebungen, store, now, loading, allPrEntries, exercises, recentPRs,
                   statsData, call, prAnalysis, topUebungen, viewVars, refVars,
                   sheetOpen, view, selectedExercise, toast, showConfetti, confettiKey,
                   submits, runs, dialogVars>>

\* handleExerciseClick(exercises[k])
handleExerciseClick(k) ==
    /\ ~loading
    /\ k \in 1..Len(exercises)
    /\ selectedExercise' = Some(exercises[k])
    /\ view' = "exercise-detail"
    /\ UNCHANGED <<storeUebungen, store, now, loading, allPrEntries, exercises, recentPRs,
                   statsData, call, prAnalysis, topUebungen, viewVars, refVars,
                   formData, sheetOpen, toast, showConfetti, confettiKey,
                   submits, runs, dialogVars>>

ToastError(message) == Some([type |-> "error", message |-> message, prTypes |-> <<>>])

ToastSuccess(message, prTypes) ==
    Some([type |-> "success", message |-> message, prTypes |-> prTypes])

\* !formData.exercise_id || !formData.weight_kg || !formData.reps
missingRequired(form) == form.exercise_id = <<>> \/ form.weight_kg = None \/ form.reps = None

\* exercises.find((ex) => ex.record_id === id): the first such exercise, or None
findExercise(exercisesWithPRs, id) ==
    LET hits == {k \in 1..Len(exercisesWithPRs) : exercisesWithPRs[k].record_id = id}
    IN  IF hits = {} THEN None
        ELSE Some(exercisesWithPRs[CHOOSE k \in hits : \A j \in hits : k <= j])

\* exercise ? analyzePR(newWeight, newReps, exercise.prs) : null
prAnalysisOf(exercise, newWeight, newReps) ==
    IF exercise = None THEN None ELSE Some(analyzePR(newWeight, newReps, exercise[1].prs))

\* the fields handed to createPrEintraegeEntry
dataOf(form) ==
    [exercise_id |-> Some(createRecordUrl(APP_ID_UEBUNGEN, form.exercise_id)),
     date |-> form.date, weight_kg |-> form.weight_kg, reps |-> form.reps]

MaxSubmits == 2

\* the store takes no more than this many entries
MaxStoreEntries == 3

\* the create requests the store has yet to carry out
Unstored(S) == {s \in S : s.position = "creating" /\ ~s.stored}

\* handleSubmitPR up to its await of createPrEintraegeEntry
handleSubmitPR ==
    /\ ~loading
    /\ sheetOpen
    /\ IF missingRequired(formData)
       THEN /\ toast' = ToastError("Bitte fuelle alle Pflichtfelder aus")
            /\ UNCHANGED submits
       ELSE /\ Cardinality(submits) < MaxSubmits
            /\ Len(store) + Cardinality(Unstored(submits)) < MaxStoreEntries
            /\ submits' = submits \cup
                   {[id |-> Cardinality(submits) + 1,
                     data |-> dataOf(formData),
                     prAnalysis |-> prAnalysisOf(findExercise(exercises, formData.exercise_id),
                                                 formData.weight_kg[1], formData.reps[1]),
                     stored |-> FALSE,
                     position |-> "creating"]}
            /\ UNCHANGED toast
    /\ UNCHANGED <<storeUebungen, store, now, loading, allPrEntries, exercises, recentPRs,
                   statsData, call, prAnalysis, topUebungen, viewVars, refVars,
                   formData, sheetOpen, view, selectedExercise, showConfetti, confettiKey,
                   runs, dialogVars>>

\* the names of the flags of analysis that are true, in the order of the pushes
prTypesOf(analysis) ==
    (IF analysis.isWeightPR THEN <<"Gewichts-PR">> ELSE <<>>)
        \o (IF analysis.isVolumePR THEN <<"Volumen-PR">> ELSE <<>>)
        \o (IF analysis.isRepPR THEN <<"Rep-PR">> ELSE <<>>)

\* the feedback that makes no difference between the classifications
celebrates_never(analysis) == FALSE

\* prAnalysis && prTypes.length > 0
celebrates(analysis) == analysis # None /\ prTypesOf(analysis[1]) # <<>>

\* handleSubmitPR of submit s from the return of createPrEintraegeEntry to
\* its await of loadData, which has called setLoading(true) and the two fetches
handleSubmitPRCreated(s) ==
    /\ s.position = "creating"
    /\ s.stored
    /\ IF celebrates(s.prAnalysis)
       THEN /\ confettiKey' = confettiKey + 1
            /\ showConfetti' = TRUE
            /\ toast' = ToastSuccess("Neuer", prTypesOf(s.prAnalysis[1]))
       ELSE /\ toast' = ToastSuccess("Eingetragen!", <<>>)
            /\ UNCHANGED <<confettiKey, showConfetti>>
    /\ sheetOpen' = FALSE
    /\ loading' = TRUE
    /\ runs' = runs \cup {loadDataRun(Cardinality(runs) + 1, FALSE)}
    /\ submits' = Replaced(submits, s, [s EXCEPT !.position = "created"])
    /\ UNCHANGED <<storeUebungen, store, now, allPrEntries, exercises, recentPRs,
                   statsData, call, prAnalysis, topUebungen, viewVars, refVars,
                   formData, view, selectedExercise, dialogVars>>

\* a catch block that reloads as well
handleSubmitPRFailed_reloading(s) ==
    /\ s.position = "creating"
    /\ toast' = ToastError("Fehler beim Speichern")
    /\ submits' = Replaced(submits, s, [s EXCEPT !.position = "failed"])
    /\ loading' = TRUE
    /\ runs' = runs \cup {loadDataRun(Cardinality(runs) + 1, FALSE)}
    /\ UNCHANGED <<storeUebungen, store, now, allPrEntries, exercises, recentPRs,
                   statsData, call, prAnalysis, topUebungen, viewVars, refVars,
                   formData, sheetOpen, view, selectedExercise, showConfetti, confettiKey,
                   dialogVars>>

\* handleSubmitPR of submit s, createPrEintraegeEntry throwing: the catch block
handleSubmitPRFailed(s) ==
    /\ s.position = "creating"
    /\ toast' = ToastError("Fehler beim Speichern")
    /\ submits' = Replaced(submits, s, [s EXCEPT !.position = "failed"])
    /\ UNCHANGED <<storeUebungen, store, now, loading, allPrEntries, exercises, recentPRs,
                   statsData, call, prAnalysis, topUebungen, viewVars, refVars,
                   formData, sheetOpen, view, selectedExercise, showConfetti, confettiKey,
                   runs, dialogVars>>

\* loadData run r from the return of Promise.all to its end
loadDataResolved(r) ==
    /\ r.position = "awaiting"
    /\ r.uebungen.state = "ok"
    /\ r.prEintraege.state = "ok"
    /\ StoreLoaded(r.uebungen.data, r.prEintraege.data)
    /\ loading' = FALSE
    /\ runs' = Replaced(runs, r, [r EXCEPT !.position = "resolved"])
    /\ UNCHANGED <<storeUebungen, store, now, call, prAnalysis, topUebungen, viewVars, refVars,
                   formData, sheetOpen, view, selectedExercise, toast, showConfetti,
                   confettiKey, submits, dialogVars>>

\* a loadData that stores the entries as soon as they are fetched, whatever
\* becomes of the exercises
loadDataRejected_partial(r) ==
    /\ r.position = "awaiting"
    /\ r.uebungen.state = "failed" \/ r.prEintraege.state = "failed"
    /\ \E sorted \in SortOutcomes(r.prEintraege.data, TRUE) :
           /\ allPrEntries' = (IF r.prEintraege.state = "ok" THEN sorted ELSE allPrEntries)
           /\ statsData' \in statsDataOutcomes(allPrEntries', exercises, now)
    /\ toast' = ToastError("Fehler beim Laden der Daten")
    /\ loading' = FALSE
    /\ runs' = Replaced(runs, r, [r EXCEPT !.position = "rejected"])
    /\ UNCHANGED <<storeUebungen, store, now, exercises, recentPRs,
                   call, prAnalysis, topUebungen, viewVars, refVars,
                   formData, sheetOpen, view, selectedExercise, showConfetti,
                   confettiKey, submits, dialogVars>>

\* loadData run r, Promise.all rejecting because a fetch threw: the catch and
\* the finally block
loadDataRejected(r) ==
    /\ r.position = "awaiting"
    /\ r.uebungen.state = "failed" \/ r.prEintraege.state = "failed"
    /\ toast' = ToastError("Fehler beim Laden der Daten")
    /\ loading' = FALSE
    /\ runs' = Replaced(runs, r, [r EXCEPT !.position = "rejected"])
    /\ UNCHANGED <<storeUebungen, store, now, allPrEntries, exercises, recentPRs,
                   statsData, call, prAnalysis, topUebungen, viewVars, refVars,
                   formData, sheetOpen, view, selectedExercise, showConfetti,
                   confettiKey, submits, dialogVars>>

----------------------------------------------------------------------------
(* The dialog Dashboard: loadData, its calculate functions, handleSubmit *)

\* the entries with a date: prEintraegeData.filter((pr) => pr.fields.date)
withDate(prEintraegeData) == SelectSeq(prEintraegeData, LAMBDA pr : pr.date # None)

\* the place of a well-formed date text in the order of localeCompare: by its
\* day, and on one day the text without a time first
dateTextKey(str) ==
    str.ymd[1] * (2 * 24 * 60) + (IF str.time = None THEN 0 ELSE 1 + str.time[1])

\* x put into xs, which is sorted by dateB.localeCompare(dateA), behind every
\* element it does not strictly precede
RECURSIVE InsertByDateText(_, _)
InsertByDateText(xs, x) ==
    IF xs = <<>> THEN <<x>>
    ELSE IF dateTextKey(x.date[1]) > dateTextKey(Head(xs).date[1]) THEN <<x>> \o xs
    ELSE <<Head(xs)>> \o InsertByDateText(Tail(xs), x)

RECURSIVE SortByDateText(_)
SortByDateText(xs) ==
    IF xs = <<>> THEN <<>>
    ELSE InsertByDateText(SortByDateText(SubSeq(xs, 1, Len(xs) - 1)), xs[Len(xs)])

\* what [...prEintraegeData].filter(...).sort(...) may be: the sorted entries
\* when every date text is well formed; a text that is no date is compared by
\* its characters, which the model does not keep, and may stand anywhere
sortedByDateOutcomes(prEintraegeData) ==
    LET dated == withDate(prEintraegeData)
    IN  IF \A i \in 1..Len(dated) : dated[i].date[1].ymd # None
        THEN {SortByDateText(dated)}
        ELSE PermutationsOf(dated)

\* the stats calculateStats hands to setStats; trainingStreak None is NaN
calculateStats(uebungenData, prEintraegeData, sortedByDate, today) ==
    LET lastPRDate == IF Len(sortedByDate) > 0 THEN sortedByDate[1].date ELSE None
    IN  [totalUebungen  |-> Len(uebungenData),
         totalPRs       |-> Len(prEintraegeData),
         lastPRDate     |-> lastPRDate,
         trainingStreak |->
             IF lastPRDate = None THEN Some(0)
             ELSE IF lastPRDate[1].ymd = None THEN None
             ELSE Some(differenceInDays(today, lastPRDate[1].ymd[1]))]

HistoryDays == 30

\* the historyData calculatePRHistory hands to setPRHistory: the last 30 days
\* up to today, each with the number of entries dated on it
calculatePRHistory(prEintraegeData, today) ==
    [i \in 1..HistoryDays |->
        LET day == today - HistoryDays + i
        IN  [date  |-> day,
             count |-> Cardinality({k \in 1..Len(prEintraegeData) :
                          /\ prEintraegeData[k].date # None
                          /\ SplitT(prEintraegeData[k].date[1]) = DateOnly(day)})]]

DialogRecentLimit == 5

\* the list calculateRecentPRs hands to setRecentPRs
calculateRecentPRs(uebungenData, sortedByDate) ==
    LET first == Slice(sortedByDate, DialogRecentLimit)
    IN  [i \in 1..Len(first) |->
            [pr |-> first[i],
             uebungName |->
                 LET exerciseId == extractRecordId(first[i].exercise_id)
                     hits == {k \in 1..Len(uebungenData) :
                                 Some(uebungenData[k].record_id) = exerciseId}
                 IN  IF hits = {} THEN "Unbekannt"
                     ELSE LET u == uebungenData[CHOOSE k \in hits : \A j \in hits : j <= k]
                          IN  IF u.name = None THEN "Unbenannte Uebung" ELSE u.name[1]]]

\* useState of the dialog's formData: every field '' but the date, today
dialogFormInit(today) ==
    [exercise_id |-> <<>>, date |-> Some(DateOnly(today)), weight_kg |-> None,
     reps |-> None, sets |-> None]

\* the dialog is opened or closed; the loading screen and the error screen
\* show no dialog
setDialogOpen(open) ==
    /\ ~loading
    /\ error = None
    /\ dialogOpen' = open
    /\ UNCHANGED <<storeUebungen, store, now, loading, allPrEntries, exercises, recentPRs,
                   statsData, call, prAnalysis, topUebungen, viewVars, refVars, sheetVars,
                   submitting, error, alerted, dialogData>>

\* the onChange handler of an input of the dialog
dialogOnChange(field, value) ==
    /\ ~loading
    /\ error = None
    /\ dialogOpen
    /\ formData' = [formData EXCEPT ![field] = value]
    /\ UNCHANGED <<storeUebungen, store, now, loading, allPrEntries, exercises, recentPRs,
                   statsData, call, prAnalysis, topUebungen, viewVars, refVars,
                   sheetOpen, view, selectedExercise, toast, showConfetti, confettiKey,
                   submits, runs, dialogVars>>

MaxRuns == 3

\* 'Erneut versuchen' on the error screen: loadData up to its await
retry ==
    /\ ~loading
    /\ error # None
    /\ Cardinality(runs) < MaxRuns
    /\ loading' = TRUE
    /\ error' = None
    /\ runs' = runs \cup {loadDataRun(Cardinality(runs) + 1, FALSE)}
    /\ UNCHANGED <<storeUebungen, store, now, allPrEntries, exercises, recentPRs,
                   statsData, call, prAnalysis, topUebungen, viewVars, refVars,
                   formData, sheetOpen, view, selectedExercise, toast, showConfetti,
                   confettiKey, submits, submitting, dialogOpen, alerted, dialogData>>

\* !formData.exercise_id || !formData.date || !formData.weight_kg || !formData.reps
dialogMissingRequired(form) == missingRequired(form) \/ form.date = None

\* handleSubmit up to its await of createPrEintraegeEntry; the submit button
\* is disabled while submitting
handleSubmit ==
    /\ ~loading
    /\ error = None
    /\ dialogOpen
    /\ ~submitting
    /\ IF dialogMissingRequired(formData)
       THEN /\ alerted' = Some("Bitte fuelle alle Pflichtfelder aus")
            /\ UNCHANGED <<submitting, submits>>
       ELSE /\ Cardinality(submits) < MaxSubmits
            /\ Len(store) + Cardinality(Unstored(submits)) < MaxStoreEntries
            /\ submitting' = TRUE
            /\ submits' = submits \cup
                   {[id |-> Cardinality(submits) + 1, data |-> dataOf(formData),
                     prAnalysis |-> None, stored |-> FALSE, position |-> "creating"]}
            /\ UNCHANGED alerted
    /\ UNCHANGED <<storeUebungen, store, now, loading, allPrEntries, exercises, recentPRs,
                   statsData, call, prAnalysis, topUebungen, viewVars, refVars,
                   formData, sheetOpen, view, selectedExercise, toast, showConfetti,
                   confettiKey, runs, dialogOpen, error, dialogData>>

\* handleSubmit of submit s from the return of createPrEintraegeEntry to its
\* await of loadData, which has called setLoading(true), setError(null) and the
\* two fetches
handleSubmitCreated(s) ==
    /\ s.position = "creating"
    /\ s.stored
    /\ dialogOpen' = FALSE
    /\ formData' = dialogFormInit(now)
    /\ loading' = TRUE
    /\ error' = None
    /\ runs' = runs \cup {loadDataRun(Cardinality(runs) + 1, TRUE)}
    /\ submits' = Replaced(submits, s, [s EXCEPT !.position = "created"])
    /\ UNCHANGED <<storeUebungen, store, now, allPrEntries, exercises, recentPRs,
                   statsData, call, prAnalysis, topUebungen, viewVars, refVars,
                   sheetOpen, view, selectedExercise, toast, showConfetti, confettiKey,
                   submitting, alerted, dialogData>>

\* a handleSubmit without the finally block
handleSubmitFailed_noFinally(s) ==
    /\ s.position = "creating"
    /\ alerted' = Some("Fehler beim Speichern")
    /\ submits' = Replaced(submits, s, [s EXCEPT !.position = "failed"])
    /\ UNCHANGED <<storeUebungen, store, now, loading, allPrEntries, exercises, recentPRs,
                   statsData, call, prAnalysis, topUebungen, viewVars, refVars,
                   formData, sheetOpen, view, selectedExercise, toast, showConfetti,
                   confettiKey, runs, submitting, dialogOpen, error, dialogData>>

\* handleSubmit of submit s, createPrEintraegeEntry throwing: the catch and the
\* finally block
handleSubmitFailed(s) ==
    /\ s.position = "creating"
    /\ alerted' = Some("Fehler beim Speichern")
    /\ submitting' = FALSE
    /\ submits' = Replaced(submits, s, [s EXCEPT !.position = "failed"])
    /\ UNCHANGED <<storeUebungen, store, now, loading, allPrEntries, exercises, recentPRs,
                   statsData, call, prAnalysis, topUebungen, viewVars, refVars,
                   formData, sheetOpen, view, selectedExercise, toast, showConfetti,
                   confettiKey, runs, dialogOpen, error, dialogData>>

\* the submitting state when run r has ended: the handleSubmit that awaited it
\* goes on to its finally block
submittingAfter(r) == IF r.awaited THEN FALSE ELSE submitting

\* the dialog's loadData run r from the return of Promise.all to its end
dialogLoadDataResolved(r) ==
    /\ r.position = "awaiting"
    /\ r.uebungen.state = "ok"
    /\ r.prEintraege.state = "ok"
    /\ \E sortedByDate \in sortedByDateOutcomes(r.prEintraege.data) :
           dialogData' =
               [uebungen    |-> r.uebungen.data,
                prEintraege |-> r.prEintraege.data,
                stats       |-> calculateStats(r.uebungen.data, r.prEintraege.data,
                                               sortedByDate, now),
                prHistory   |-> calculatePRHistory(r.prEintraege.data, now),
                recentPRs   |-> calculateRecentPRs(r.uebungen.data, sortedByDate)]
    /\ topUebungen' = Some(calculateTopUebungen(r.uebungen.data, r.prEintraege.data))
    /\ loading' = FALSE
    /\ submitting' = submittingAfter(r)
    /\ runs' = Replaced(runs, r, [r EXCEPT !.position = "resolved"])
    /\ UNCHANGED <<storeUebungen, store, now, allPrEntries, exercises, recentPRs,
                   statsData, call, prAnalysis, viewVars, refVars,
                   formData, sheetOpen, view, selectedExercise, toast, showConfetti,
                   confettiKey, submits, dialogOpen, error, alerted>>

\* the dialog's loadData run r, Promise.all rejecting because a fetch threw:
\* the catch and the finally block
dialogLoadDataRejected(r) ==
    /\ r.position = "awaiting"
    /\ r.uebungen.state = "failed" \/ r.prEintraege.state = "failed"
    /\ error' = Some("Fehler beim Laden der Daten")
    /\ loading' = FALSE
    /\ submitting' = submittingAfter(r)
    /\ runs' = Replaced(runs, r, [r EXCEPT !.position = "rejected"])
    /\ UNCHANGED <<storeUebungen, store, now, allPrEntries, exercises, recentPRs,
                   statsData, call, prAnalysis, topUebungen, viewVars, refVars,
                   formData, sheetOpen, view, selectedExercise, toast, showConfetti,
                   confettiKey, submits, dialogOpen, alerted, dialogData>>

----------------------------------------------------------------------------
(* Specifications *)

\* the states of the sheet, the feedback and the requests as constructed
SheetInit ==
    /\ sheetOpen = FALSE
    /\ view = "home"
    /\ selectedExercise = None
    /\ toast = None
    /\ showConfetti = FALSE
    /\ confettiKey = 0
    /\ submits = {}
    /\ runs = {}

\* useState of the dialog Dashboard's stats
statsInit ==
    [totalUebungen |-> 0, totalPRs |-> 0, lastPRDate |-> None, trainingStreak |-> Some(0)]

\* the states of the dialog Dashboard as constructed
DialogInit ==
    /\ submitting = FALSE
    /\ dialogOpen = FALSE
    /\ error = None
    /\ alerted = None
    /\ dialogData = [uebungen |-> <<>>, prEintraege |-> <<>>, stats |-> statsInit,
                     prHistory |-> <<>>, recentPRs |-> <<>>]

\* the collections, memos and calendar states as constructed
DataInit ==
    /\ loading = TRUE
    /\ allPrEntries = <<>>
    /\ exercises = <<>>
    /\ recentPRs = <<>>
    /\ statsData = None
    /\ topUebungen = None
    /\ selectedDate = None
    /\ dayDetailOpen = FALSE
    /\ dayCell = None

\* the Dashboard as constructed
DashboardInit ==
    /\ DataInit
    /\ SheetInit
    /\ DialogInit
    /\ formData = formDataInit(now)

MaxPrior == 2

MaxWeight == 2

MaxReps == 2

OptionalUpTo(n) == {None} \cup {Some(v) : v \in 0..n}

\* analyzePR on every history of up to MaxPrior entries
InitPR ==
    /\ refCall = None
    /\ refResult = None
    /\ urlCall = None
    /\ storeUebungen = uebungenStore
    /\ store = <<>>
    /\ now = 20090
    /\ prAnalysis = None
    /\ \E newWeight \in 0..MaxWeight, newReps \in 0..MaxReps :
       \E rows \in SeqsUpTo({RefA} \X {Some(DateOnly(20080))}
                              \X OptionalUpTo(MaxWeight) \X OptionalUpTo(MaxReps), MaxPrior) :
           call = Some([newWeight |-> newWeight, newReps |-> newReps,
                        previousEntries |-> MkEntries(rows)])
    /\ DashboardInit

SpecPR == InitPR /\ [][AnalyzePR]_vars

NextLoad == loadDataOk \/ loadDataFail

MaxStreakEntries == 3

\* 2024-01-03 (Wed), 2024-12-16 (Mon), 2024-12-23 (Mon), 2024-12-29 (Sun),
\* 2024-12-30 (Mon), 2025-01-02 (Thu), 2025-01-06 (Mon)
StreakDays == {19725, 20073, 20080, 20086, 20087, 20090, 20094}

\* 2024-12-29 (Sun), 2024-12-30 (Mon), 2025-01-02 (Thu), 2025-01-06 (Mon), 2025-01-13 (Mon)
StreakNows == {20086, 20087, 20090, 20094, 20101}

\* sessions around the turn of the year 2024/2025
InitStreak ==
    /\ refCall = None
    /\ refResult = None
    /\ urlCall = None
    /\ storeUebungen = uebungenStore
    /\ call = None
    /\ prAnalysis = None
    /\ now \in StreakNows
    /\ \E rows \in SeqsUpTo({RefA} \X {Some(DateOnly(d)) : d \in StreakDays}
                              \X {Some(100)} \X {Some(5)}, MaxStreakEntries) :
           store = MkEntries(rows)
    /\ DashboardInit

SpecStreak == InitStreak /\ [][NextLoad]_vars

MaxGainEntries == 4

\* exercise A without a date and on 2024-12-16 and 2024-12-23 at 0, 90 and 120;
\* exercise B at 90 on 2024-12-16 and at 120 on 2024-12-23
GainRows ==
    ({RefA} \X {None, Some(DateOnly(20073)), Some(DateOnly(20080))}
            \X {Some(0), Some(90), Some(120)} \X {Some(5)})
    \cup {<<RefB, Some(DateOnly(20073)), Some(90), Some(5)>>,
          <<RefB, Some(DateOnly(20080)), Some(120), Some(5)>>}

InitGain ==
    /\ refCall = None
    /\ refResult = None
    /\ urlCall = None
    /\ storeUebungen = uebungenStore
    /\ call = None
    /\ prAnalysis = None
    /\ now = 20090
    /\ \E rows \in SeqsUpTo(GainRows, MaxGainEntries) : store = MkEntries(rows)
    /\ DashboardInit

SpecGain == InitGain /\ [][NextLoad]_vars

MaxSessionEntries == 3

\* 2024-12-22, 2024-12-23, 2025-01-02, 2025-01-13
SessionNows == {20079, 20080, 20090, 20101}

\* entries without a date, with a text that is no date, and on 2024-12-23 and
\* 2024-12-24 with and without a time of day
InitSessions ==
    /\ refCall = None
    /\ refResult = None
    /\ urlCall = None
    /\ storeUebungen = uebungenStore
    /\ call = None
    /\ prAnalysis = None
    /\ now \in SessionNows
    /\ \E rows \in SeqsUpTo({RefA}
                              \X {None, Some(NoDate), Some(DateOnly(20080)),
                                  Some(DateTime(20080, 510)), Some(DateOnly(20081)),
                                  Some(DateTime(20081, 1200))}
                              \X {Some(100)} \X {Some(5)}, MaxSessionEntries) :
           store = MkEntries(rows)
    /\ DashboardInit

SpecSessions == InitSessions /\ [][NextLoad]_vars

MaxTopCount == 2

\* an id no exercise of the store has
IdUnknown == Rep("9", IdLen)

TopRefs == <<IdA, IdB, IdC, IdD, IdE, IdF, IdUnknown>>

Reverse(xs) == [i \in 1..Len(xs) |-> xs[Len(xs) + 1 - i]]

\* counts[k] rows that refer to ids[k], for k, k + 1, ... in turn
RECURSIVE RowsFor(_, _, _)
RowsFor(ids, counts, k) ==
    IF k > Len(ids) THEN <<>>
    ELSE Rep(<<RefTo(ids[k]), Some(DateOnly(20080)), Some(100), Some(5)>>, counts[k])
         \o RowsFor(ids, counts, k + 1)

\* six exercises and up to MaxTopCount entries for each of them and for an
\* unknown id, fetched in the order of the exercises or in the reverse order
InitTop ==
    /\ refCall = None
    /\ refResult = None
    /\ urlCall = None
    /\ storeUebungen = uebungenSix
    /\ call = None
    /\ prAnalysis = None
    /\ now = 20090
    /\ \E ids \in {TopRefs, Reverse(TopRefs)} :
       \E counts \in [1..Len(TopRefs) -> 0..MaxTopCount] :
           store = MkEntries(RowsFor(ids, counts, 1))
    /\ DashboardInit

NextTop == loadDataOk \/ loadDataFail \/ CalculateTopUebungen

SpecTop == InitTop /\ [][NextTop]_vars

MaxDayEntries == 9

MaxOtherEntries == 2

\* a reference that ends in no record id, and one to an id no exercise has
RefGarbled == Some(<<"n", "/", "a">>)

RefUnknown == RefTo(IdUnknown)

\* up to MaxDayEntries entries of exercise A on 2024-12-23, every second one
\* with a time of day, before up to MaxOtherEntries entries on the day before
\* or the day after it with one of the references
InitCalendar ==
    /\ refCall = None
    /\ refResult = None
    /\ urlCall = None
    /\ storeUebungen = uebungenStore
    /\ call = None
    /\ prAnalysis = None
    /\ now = 20090
    /\ \E n \in 0..MaxDayEntries, m \in 0..MaxOtherEntries :
       \E ref \in {None, RefGarbled, RefUnknown, RefB}, day \in {20079, 20081} :
           store = MkEntries(
               [i \in 1..n |-> <<RefA, Some(IF i % 2 = 1 THEN DateOnly(20080)
                                             ELSE DateTime(20080, 600)),
                                 Some(100), Some(5)>>]
               \o Rep(<<ref, Some(DateOnly(day)), Some(100), Some(5)>>, m))
    /\ DashboardInit

NextCalendar == loadDataOk \/ loadDataFail \/ RenderDay \/ openDayDetail

SpecCalendar == InitCalendar /\ [][NextCalendar]_vars

MaxGroupEntries == 3

\* a reference to exercise A's id in capital letters
RefUpperA == RefTo(Rep("A", IdLen))

\* entries with every kind of reference
RefRows ==
    {RefA, RefB, None, RefGarbled, RefUnknown, RefUpperA}
        \X {Some(DateOnly(20073)), Some(DateOnly(20080))} \X {Some(100)} \X {Some(5)}

\* entries of two exercises without a date and on two days, with and without
\* a time of day
DateRows ==
    {RefA, RefB}
        \X {None, Some(DateOnly(20073)), Some(DateTime(20073, 600)),
            Some(DateOnly(20080)), Some(DateTime(20080, 600))}
        \X {Some(100)} \X {Some(5)}

\* entries of one exercise with and without a weight and a number of reps
BestRows ==
    {RefA} \X {Some(DateOnly(20080))} \X OptionalUpTo(MaxWeight) \X {None, Some(1), Some(2)}

InitGroups ==
    /\ refCall = None
    /\ refResult = None
    /\ urlCall = None
    /\ storeUebungen = uebungenStore
    /\ call = None
    /\ prAnalysis = None
    /\ now = 20090
    /\ \E family \in {RefRows, DateRows, BestRows} :
       \E rows \in SeqsUpTo(family, MaxGroupEntries) : store = MkEntries(rows)
    /\ DashboardInit

SpecGroups == InitGroups /\ [][NextLoad]_vars

MaxPadding == 2

\* s with its p-th character replaced by c
Replace(s, p, c) == [i \in 1..Len(s) |-> IF i = p THEN c ELSE s[i]]

\* 24 hexadecimal characters, and the same with one character replaced by a
\* character that is or is not a hexadecimal digit
RefTails ==
    LET ids == {IdA, IdB, Rep("0", IdLen), APP_ID_UEBUNGEN}
    IN  ids \cup {Replace(id, p, c) :
                    id \in ids, p \in 1..IdLen, c \in {"g", "G", "/", " ", "9", "E"}}

\* what may stand in front of and behind them
RefPaddings ==
    {Rep(c, n) : c \in {"a", "x", "/"}, n \in 0..MaxPadding}
        \cup {ApiRecordsPrefix \o APP_ID_UEBUNGEN \o <<"/", "r", "e", "c", "o", "r", "d", "s", "/">>}

\* null, the empty text, texts of fewer than 24 characters, and the tails with
\* something in front of them or behind them
RefInputs ==
    {None, Some(<<>>)}
        \cup {Some(Rep(c, n)) : c \in {"a", "F", "x"}, n \in 1..(IdLen - 1)}
        \cup {Some(front \o tail) : front \in RefPaddings, tail \in RefTails}
        \cup {Some(IdA \o back) : back \in RefPaddings}

InitRef ==
    /\ storeUebungen = uebungenStore
    /\ store = <<>>
    /\ now = 20090
    /\ call = None
    /\ prAnalysis = None
    /\ refResult = None
    /\ urlCall = None
    /\ \E url \in RefInputs : refCall = Some([url |-> url])
    /\ DashboardInit

SpecRef == InitRef /\ [][ExtractRecordId]_vars

APP_ID_PR_EINTRAEGE ==
    <<"6", "9", "4", "d", "7", "7", "f", "4", "b", "6", "4", "1", "f", "5", "b", "8",
      "7", "9", "e", "4", "e", "8", "1", "0">>

\* the two app ids, the empty text, and texts that are not an app id
AppIds == {APP_ID_UEBUNGEN, APP_ID_PR_EINTRAEGE, <<>>, <<"x">>, IdA \o <<"/">>}

\* record ids: 24 hexadecimal characters in either case
RecordIds ==
    LET ids == {IdA, IdB, Rep("0", IdLen), APP_ID_UEBUNGEN}
    IN  ids \cup {Replace(id, p, c) : id \in ids, p \in 1..IdLen, c \in {"9", "E", "f"}}

InitRoundTrip ==
    /\ storeUebungen = uebungenStore
    /\ store = <<>>
    /\ now = 20090
    /\ call = None
    /\ prAnalysis = None
    /\ refCall = None
    /\ refResult = None
    /\ \E appId \in AppIds, recordId \in RecordIds :
           urlCall = Some([appId |-> appId, recordId |-> recordId])
    /\ DashboardInit

NextRoundTrip == CreateRecordUrl \/ ExtractRecordId

SpecRoundTrip == InitRoundTrip /\ [][NextRoundTrip]_vars

\* an entry of exercise A at weight 1 and 1 rep on 2024-12-23 and entries of
\* exercise B
SubmitRows ==
    << <<RefA, Some(DateOnly(20080)), Some(1), Some(1)>>,
       <<RefB, Some(DateOnly(20073)), Some(2), Some(2)>>,
       <<RefB, Some(DateOnly(20080)), Some(1), Some(1)>>,
       <<RefB, Some(DateOnly(20081)), Some(2), Some(1)>> >>

\* a store with room for one more entry, today being 2025-01-02; the Dashboard
\* has mounted and its effect has called loadData
InitSubmit ==
    /\ refCall = None
    /\ refResult = None
    /\ urlCall = None
    /\ storeUebungen = uebungenStore
    /\ call = None
    /\ prAnalysis = None
    /\ now = 20090
    /\ store = MkEntries(SubSeq(SubmitRows, 1, MaxStoreEntries - 1))
    /\ DataInit
    /\ DialogInit
    /\ formData = formDataInit(now)
    /\ sheetOpen = FALSE
    /\ view = "home"
    /\ selectedExercise = None
    /\ toast = None
    /\ showConfetti = FALSE
    /\ confettiKey = 0
    /\ submits = {}
    /\ runs = {loadDataRun(1, FALSE)}

\* what the user types into the weight and the reps input
TypedValues == {None, Some(1), Some(2)}

NextRequests ==
    \/ \E r \in runs : getUebungen(r)
    \/ \E r \in runs : getPrEintraege(r)
    \/ \E r \in runs, request \in {"uebungen", "prEintraege"} : callApiThrows(r, request)
    \/ \E s \in submits : createPrEintraegeEntry(s)

NextSubmit ==
    \/ NextRequests
    \/ \E id \in {<<>>, IdA} : openPRSheet(id)
    \/ \E field \in {"weight_kg", "reps"}, value \in TypedValues : onChange(field, value)
    \/ handleSubmitPR
    \/ \E s \in submits : handleSubmitPRCreated(s)
    \/ \E s \in submits : handleSubmitPRFailed(s)
    \/ \E r \in runs : loadDataResolved(r)
    \/ \E r \in runs : loadDataRejected(r)

SpecSubmit == InitSubmit /\ [][NextSubmit]_vars

\* the Dashboard loaded from a store with one entry of exercise A; the user
\* has clicked exercise A, opened the sheet from its detail view and typed a
\* weight and 1 rep
InitOverlap ==
    /\ refCall = None
    /\ refResult = None
    /\ urlCall = None
    /\ storeUebungen = uebungenStore
    /\ call = None
    /\ prAnalysis = None
    /\ now = 20090
    /\ store = MkEntries(<< <<RefA, Some(DateOnly(20080)), Some(1), Some(1)>> >>)
    /\ loading = FALSE
    /\ allPrEntries \in SortOutcomes(store, TRUE)
    /\ exercises \in exercisesWithPRsOutcomes(storeUebungen, store)
    /\ recentPRs = recentOf(storeUebungen, allPrEntries)
    /\ statsData \in statsDataOutcomes(allPrEntries, exercises, now)
    /\ topUebungen = None
    /\ selectedDate = None
    /\ dayDetailOpen = FALSE
    /\ dayCell = None
    /\ DialogInit
    /\ view = "exercise-detail"
    /\ selectedExercise = Some(exercises[1])
    /\ sheetOpen = TRUE
    /\ \E weight \in {1, 2} :
           formData = [formDataInit(now) EXCEPT !.exercise_id = IdA,
                                                !.weight_kg = Some(weight),
                                                !.reps = Some(1)]
    /\ toast = None
    /\ showConfetti = FALSE
    /\ confettiKey = 0
    /\ submits = {}
    /\ runs = {[loadDataRun(1, FALSE) EXCEPT !.uebungen = Answered(storeUebungen),
                                              !.prEintraege = Answered(store),
                                              !.position = "resolved"]}

\* Speichern pressed twice, and the reloads that follow
NextOverlap ==
    \/ NextRequests
    \/ handleSubmitPR
    \/ \E s \in submits : handleSubmitPRCreated(s)
    \/ \E r \in runs : loadDataResolved(r)
    \/ \E r \in runs : loadDataRejected(r)

SpecOverlap == InitOverlap /\ [][NextOverlap]_vars

\* the dialog Dashboard over the same store: it has mounted and its effect
\* has called loadData
InitDialog ==
    /\ refCall = None
    /\ refResult = None
    /\ urlCall = None
    /\ storeUebungen = uebungenStore
    /\ call = None
    /\ prAnalysis = None
    /\ now = 20090
    /\ store = MkEntries(<< <<RefA, Some(DateOnly(20080)), Some(1), Some(1)>>,
                            <<RefB, Some(DateOnly(20073)), Some(2), Some(2)>> >>)
    /\ DataInit
    /\ DialogInit
    /\ formData = dialogFormInit(now)
    /\ sheetOpen = FALSE
    /\ view = "home"
    /\ selectedExercise = None
    /\ toast = None
    /\ showConfetti = FALSE
    /\ confettiKey = 0
    /\ submits = {}
    /\ runs = {loadDataRun(1, FALSE)}

\* the mount's loadData, the dialog and handleSubmit
NextHandleSubmit ==
    \/ NextRequests
    \/ \E open \in BOOLEAN : setDialogOpen(open)
    \/ \E value \in {<<>>, IdA} : dialogOnChange("exercise_id", value)
    \/ \E field \in {"weight_kg", "reps"}, value \in {None, Some(2)} :
           dialogOnChange(field, value)
    \/ handleSubmit
    \/ \E s \in submits : handleSubmitCreated(s)
    \/ \E s \in submits : handleSubmitFailed(s)
    \/ \E r \in runs : dialogLoadDataResolved(r)
    \/ \E r \in runs : dialogLoadDataRejected(r)

\* the same with the retries from the error screen
NextDialog == NextHandleSubmit \/ retry

SpecDialog == InitDialog /\ [][NextDialog]_vars

\* what goes on without the user: a request that was sent is answered or
\* fails, and a handler whose await has ended runs on
RequestsSettle == WF_vars(NextRequests)

DialogHandlersResume ==
    WF_vars(\/ \E s \in submits : handleSubmitCreated(s)
            \/ \E s \in submits : handleSubmitFailed(s)
            \/ \E r \in runs : dialogLoadDataResolved(r)
            \/ \E r \in runs : dialogLoadDataRejected(r))

SpecDialogFair ==
    InitDialog /\ [][NextHandleSubmit]_vars /\ RequestsSettle /\ DialogHandlersResume

\* what the reps and sets fields hold when the plus and minus buttons are
\* first pressed: nothing, or an integer
FieldIntegers == {-2, 0, 1, 5}

FieldValues == {None} \cup {Some(n) : n \in FieldIntegers}

StepperFields == {"reps", "sets"}

InitForm ==
    /\ DataInit
    /\ SheetInit
    /\ DialogInit
    /\ refCall = None
    /\ refResult = None
    /\ urlCall = None
    /\ storeUebungen = uebungenStore
    /\ store = <<>>
    /\ now = 20090
    /\ call = None
    /\ prAnalysis = None
    /\ \E reps \in FieldValues, sets \in FieldValues :
           formData = [formDataInit(now) EXCEPT !.reps = reps, !.sets = sets]

NextForm ==
    \/ \E field \in StepperFields : incrementValue(field)
    \/ \E field \in StepperFields : decrementValue(field)

SpecForm == InitForm /\ [][NextForm]_vars

----------------------------------------------------------------------------
(* Properties of analyzePR *)

\* the analyzePR call has returned
Analyzed == call # None /\ prAnalysis # None

newWeightOfCall == call[1].newWeight

newRepsOfCall == call[1].newReps

priorOfCall == call[1].previousEntries

\* the largest element of a set of numbers, 0 for the empty set
MaxOrZero(S) == IF S = {} THEN 0 ELSE CHOOSE m \in S : \A x \in S : x <= m

\* the weights, the volumes and the reps at weight w that the prior entries record
PriorWeights(prior) ==
    {prior[i].weight_kg[1] : i \in {j \in 1..Len(prior) : prior[j].weight_kg # None}}

PriorVolumes(prior) ==
    {prior[i].weight_kg[1] * prior[i].reps[1] :
        i \in {j \in 1..Len(prior) : prior[j].weight_kg # None /\ prior[j].reps # None}}

PriorRepsAt(prior, w) ==
    {prior[i].reps[1] :
        i \in {j \in 1..Len(prior) : prior[j].weight_kg = Some(w) /\ prior[j].reps # None}}

LoggedAt(prior, w) == \E i \in 1..Len(prior) : prior[i].weight_kg = Some(w)

\* C1: with an empty list of prior entries analyzePR returns all three flags
\* true and previousBest = {weight 0, reps 0, volume 0}, whatever newWeight and
\* newReps are.
C1_EmptyHistory ==
    (Analyzed /\ priorOfCall = <<>>) =>
        /\ prAnalysis[1].isWeightPR
        /\ prAnalysis[1].isRepPR
        /\ prAnalysis[1].isVolumePR
        /\ prAnalysis[1].previousBest = [weight |-> 0, reps |-> 0, volume |-> 0]

C1_Witness == Analyzed /\ priorOfCall = <<>> /\ newWeightOfCall = 0 /\ newRepsOfCall = 0

\* C2 as stated: for every list of prior entries, the empty one included with
\* its maximum taken as 0, isWeightPR is true iff newWeight is strictly greater
\* than the maximum prior weight_kg.
C2_Original ==
    Analyzed =>
        (prAnalysis[1].isWeightPR <=> newWeightOfCall > MaxOrZero(PriorWeights(priorOfCall)))

\* C2 as amended: for every non-empty list of prior entries isWeightPR is true
\* iff newWeight is strictly greater than the maximum prior weight_kg; for the
\* empty list isWeightPR is true for every newWeight, 0 included.
C2_WeightPR ==
    Analyzed =>
        IF priorOfCall = <<>> THEN prAnalysis[1].isWeightPR
        ELSE (prAnalysis[1].isWeightPR
                <=> newWeightOfCall > MaxOrZero(PriorWeights(priorOfCall)))

C2_Witness ==
    /\ Analyzed
    /\ Len(priorOfCall) = 2
    /\ priorOfCall[1].weight_kg = Some(1)
    /\ priorOfCall[2].weight_kg = None
    /\ newWeightOfCall = 1
    /\ ~prAnalysis[1].isWeightPR

\* C3 as stated: for every list of prior entries, the empty one included with
\* its maximum taken as 0, isVolumePR is true iff newWeight * newReps is
\* strictly greater than the maximum prior weight_kg * reps.
C3_Original ==
    Analyzed =>
        (prAnalysis[1].isVolumePR
            <=> newWeightOfCall * newRepsOfCall > MaxOrZero(PriorVolumes(priorOfCall)))

\* C3 as amended: for every non-empty list of prior entries isVolumePR is true
\* iff newWeight * newReps is strictly greater than the maximum prior
\* weight_kg * reps; for the empty list isVolumePR is true for every newWeight
\* and newReps, a volume of 0 included.
C3_VolumePR ==
    Analyzed =>
        IF priorOfCall = <<>> THEN prAnalysis[1].isVolumePR
        ELSE (prAnalysis[1].isVolumePR
                <=> newWeightOfCall * newRepsOfCall > MaxOrZero(PriorVolumes(priorOfCall)))

C3_Witness ==
    /\ Analyzed
    /\ Len(priorOfCall) = 2
    /\ priorOfCall[1].weight_kg = Some(2) /\ priorOfCall[1].reps = Some(1)
    /\ priorOfCall[2].weight_kg = Some(1) /\ priorOfCall[2].reps = Some(1)
    /\ newWeightOfCall = 2 /\ newRepsOfCall = 2
    /\ prAnalysis[1].isVolumePR
    /\ ~prAnalysis[1].isWeightPR

HeavierThanAll(prior, w) == \A x \in PriorWeights(prior) : w > x

C6_PreviousBest ==
    Analyzed =>
        /\ prAnalysis[1].previousBest.weight = MaxOrZero(PriorWeights(priorOfCall))
        /\ prAnalysis[1].previousBest.volume = MaxOrZero(PriorVolumes(priorOfCall))
        /\ prAnalysis[1].previousBest.reps
               = MaxOrZero(PriorRepsAt(priorOfCall, newWeightOfCall))

\* the best reps at newWeight is below the best reps overall
C6_Witness ==
    /\ Analyzed
    /\ Len(priorOfCall) = 2
    /\ priorOfCall[1].weight_kg = Some(1) /\ priorOfCall[1].reps = Some(1)
    /\ priorOfCall[2].weight_kg = Some(2) /\ priorOfCall[2].reps = Some(2)
    /\ newWeightOfCall = 1
    /\ prAnalysis[1].previousBest = [weight |-> 2, reps |-> 1, volume |-> 4]

----------------------------------------------------------------------------
(* Properties of statsData *)

\* the calendar days on which the stored entries were logged
SessionDays ==
    {allPrEntries[i].date[1].ymd[1] :
        i \in {j \in 1..Len(allPrEntries) :
                 allPrEntries[j].date # None /\ allPrEntries[j].date[1].ymd # None}}

\* the number of the Monday-to-Sunday week day d lies in
WeekIndex(d) == (d + 3) \div 7

TrainedWeek(w) == \E d \in SessionDays : WeekIndex(d) = w

\* the current week when it has a session, the week before it otherwise
StartWeek ==
    IF TrainedWeek(WeekIndex(now)) THEN WeekIndex(now) ELSE WeekIndex(now) - 1

\* the consecutive trained weeks back from StartWeek, at most MaxStreakWeeks
ConsecutiveWeeks ==
    CHOOSE k \in 0..MaxStreakWeeks :
        /\ \A j \in 0..(k - 1) : TrainedWeek(StartWeek - j)
        /\ k = MaxStreakWeeks \/ ~TrainedWeek(StartWeek - k)

\* C7: currentStreak is the number of consecutive Monday-to-Sunday weeks with a
\* session, counted back from the start week to the first week without one and
\* capped at 52, also when the weeks cross a year boundary.
C7_Streak == statsData # None => statsData[1].currentStreak = ConsecutiveWeeks

\* C8: the walk starts at the current week when it has a session and at the
\* week before it otherwise: the streak is at least 1 when the current or the
\* preceding week has a session, and 0 when both are empty.
C8_StartWeek ==
    statsData # None =>
        /\ TrainedWeek(WeekIndex(now)) => statsData[1].currentStreak >= 1
        /\ (~TrainedWeek(WeekIndex(now)) /\ TrainedWeek(WeekIndex(now) - 1))
              => statsData[1].currentStreak >= 1
        /\ (~TrainedWeek(WeekIndex(now)) /\ ~TrainedWeek(WeekIndex(now) - 1))
              => statsData[1].currentStreak = 0

\* the exercise ids the stored entries resolve to
ReferencedIds ==
    {extractRecordId(allPrEntries[i].exercise_id) : i \in 1..Len(allPrEntries)} \ {None}

EntriesOf(id) ==
    {i \in 1..Len(allPrEntries) : extractRecordId(allPrEntries[i].exercise_id) = id}

\* the time an entry is dated at, an entry without a date before all others
EntryTime(i) ==
    IF allPrEntries[i].date = None THEN 0
    ELSE allPrEntries[i].date[1].ymd[1] * (24 * 60) + OrZero(allPrEntries[i].date[1].time)

\* the earliest-dated entry of an exercise (the first stored of several)
EarliestOf(id) ==
    CHOOSE i \in EntriesOf(id) :
        \A j \in EntriesOf(id) :
            EntryTime(i) < EntryTime(j) \/ (EntryTime(i) = EntryTime(j) /\ i <= j)

Baseline(id) == OrZero(allPrEntries[EarliestOf(id)].weight_kg)

BestWeight(id) == MaxOrZero({OrZero(allPrEntries[i].weight_kg) : i \in EntriesOf(id)})

\* the exercises that count towards the strength gain
Gaining ==
    {id \in ReferencedIds :
        /\ Cardinality(EntriesOf(id)) >= 2
        /\ Baseline(id) > 0
        /\ BestWeight(id) > Baseline(id)}

\* the sum over S of (best - baseline) / baseline * 100, as num / den
RECURSIVE GainSum(_)
GainSum(S) ==
    IF S = {} THEN [num |-> 0, den |-> 1]
    ELSE LET id == CHOOSE x \in S : TRUE
             rest == GainSum(S \ {id})
         IN  [num |-> rest.num * Baseline(id)
                        + (BestWeight(id) - Baseline(id)) * 100 * rest.den,
              den |-> rest.den * Baseline(id)]

C10_TotalSessions ==
    statsData # None => statsData[1].totalSessions = Cardinality(SessionDays)

\* every entry that has a date has one that parses
AllDatesParse ==
    \A i \in 1..Len(allPrEntries) :
        allPrEntries[i].date = None \/ allPrEntries[i].date[1].ymd # None

\* max(1, days between now and the earliest session day)
DaysSinceFirstSession ==
    IF SessionDays = {} THEN 1
    ELSE LET earliest == CHOOSE d \in SessionDays : \A x \in SessionDays : d <= x
         IN  IF now - earliest > 1 THEN now - earliest ELSE 1

\* max(1, ceil(DaysSinceFirstSession / 7))
WeeksActive == CHOOSE k \in 1..DaysSinceFirstSession : 7 * k >= DaysSinceFirstSession
                                                     /\ 7 * (k - 1) < DaysSinceFirstSession

C11_FutureWitness ==
    /\ statsData # None
    /\ AllDatesParse
    /\ now = 20079
    /\ SessionDays = {20080, 20081}
    /\ statsData[1].sessionsPerWeek = Some(20)

\* for each exercise of the store, the number of stored entries that refer to it
PrCounts ==
    [k \in 1..Len(storeUebungen) |->
        Cardinality({i \in 1..Len(store) :
                       extractRecordId(store[i].exercise_id)
                           = Some(storeUebungen[k].record_id)})]

\* with the counts cnt, exercise j ranks before exercise k: more entries, or
\* as many and listed earlier
RanksBefore(cnt, j, k) == cnt[j] > cnt[k] \/ (cnt[j] = cnt[k] /\ j < k)

\* the exercises by rank, the first TopLimit of them
Ranking(cnt) ==
    LET n == Len(cnt)
        rank == [k \in 1..n |-> 1 + Cardinality({j \in 1..n : RanksBefore(cnt, j, k)})]
    IN  [r \in 1..(IF n < TopLimit THEN n ELSE TopLimit) |->
            CHOOSE k \in 1..n : rank[k] = r]

\* calculateTopUebungen returns the first five exercises by rank
TopUebungenRanked ==
    topUebungen # None =>
        LET cnt == PrCounts
            ranking == Ranking(cnt)
        IN  topUebungen[1] =
                [r \in 1..Len(ranking) |->
                    [name    |-> IF storeUebungen[ranking[r]].name = None
                                 THEN "Unbenannte Uebung"
                                 ELSE storeUebungen[ranking[r]].name[1],
                     prCount |-> cnt[ranking[r]]]]

\* the stats view lists the first five exercises by rank (those with an entry)
TopExercisesRanked ==
    statsData # None =>
        LET cnt == PrCounts
            hasEntry(k) == cnt[k] > 0
            ranking == SelectSeq(Ranking(cnt), hasEntry)
        IN  [i \in 1..Len(statsData[1].topExercises) |->
                statsData[1].topExercises[i].record_id]
            = [r \in 1..Len(ranking) |-> storeUebungen[ranking[r]].record_id]

\* C12: topExercises lists the exercises by the number of their entries, most
\* entries first, exercises with as many entries in the order of the exercise
\* list, cut to the first 5, in the stats view and in calculateTopUebungen.
C12_TopExercises == TopExercisesRanked /\ TopUebungenRanked

----------------------------------------------------------------------------
(* Properties of the calendar *)

\* the number of stored entries dated on the day of the date text
EntriesOn(dateStr) ==
    Cardinality({i \in 1..Len(allPrEntries) :
                   /\ allPrEntries[i].date # None
                   /\ allPrEntries[i].date[1].ymd = dateStr.ymd})

\* C13: the cell of a day is 'none' for 0 entries on that day, 'low' for 1 or
\* 2, 'medium' for 3 or 4 and 'high' for 5 or more.
C13_Heatmap ==
    dayCell # None =>
        LET count == EntriesOn(dayCell[1].dateStr)
        IN  dayCell[1].intensity =
                CASE count = 0 -> "none"
                  [] count \in 1..2 -> "low"
                  [] count \in 3..4 -> "medium"
                  [] OTHER -> "high"

\* a day with nine entries is rendered 'high'
C13_Witness ==
    /\ dayCell # None
    /\ EntriesOn(dayCell[1].dateStr) = 9
    /\ dayCell[1].intensity = "high"

\* every step of the claim is rendered: 0, 1, 2, 3, 4 and 5 entries
C13_Steps(count, intensity) ==
    /\ dayCell # None
    /\ EntriesOn(dayCell[1].dateStr) = count
    /\ dayCell[1].intensity = intensity

----------------------------------------------------------------------------
(* Properties of loadData *)

\* loadData has ended with both fetches answered
Loaded == ~loading /\ Len(exercises) = Len(storeUebungen)

\* the exercises in whose prs list the fetched entry i is
ListsWith(i) ==
    {k \in 1..Len(exercises) :
        \E j \in 1..Len(exercises[k].prs) : exercises[k].prs[j] = store[i]}

\* the exercises the reference of the fetched entry i names
NamedBy(i) ==
    {k \in 1..Len(storeUebungen) :
        store[i].exercise_id = RefTo(storeUebungen[k].record_id)}

\* C14: after loadData an entry is in the prs list of an exercise if and only if
\* its reference resolves to the id of that exercise; so it is in at most one
\* list, and in none when the reference is missing, garbled or names no known
\* exercise.
C14_Grouping ==
    Loaded =>
        /\ \A i \in 1..Len(store) :
              /\ ListsWith(i) = NamedBy(i)
              /\ Cardinality(ListsWith(i)) <= 1
              /\ store[i].exercise_id \in {None, RefGarbled, RefUnknown, RefUpperA}
                    => ListsWith(i) = {}
        /\ \A k \in 1..Len(exercises) :
              Len(exercises[k].prs) = Cardinality({i \in 1..Len(store) : k \in NamedBy(i)})

\* entries of A, of B and with a reference in capital letters are loaded
C14_Witness ==
    /\ Loaded
    /\ Len(store) = 3
    /\ store[1].exercise_id = RefUpperA
    /\ store[2].exercise_id = RefB
    /\ store[3].exercise_id = RefA
    /\ ListsWith(1) = {} /\ ListsWith(2) = {2} /\ ListsWith(3) = {1}

\* the time an entry is dated at, an entry without a date at time 0
TimeOf(e) ==
    IF e.date = None THEN 0
    ELSE e.date[1].ymd[1] * (24 * 60) + OrZero(e.date[1].time)

\* entry a comes before entry b: dated later, or at the same time and fetched
\* earlier (record_id is the position in the fetch)
ComesBefore(a, b) ==
    TimeOf(a) > TimeOf(b) \/ (TimeOf(a) = TimeOf(b) /\ a.record_id < b.record_id)

Largest(xs) == CHOOSE m \in {xs[i] : i \in 1..Len(xs)} : \A i \in 1..Len(xs) : xs[i] <= m

\* C16: bestKg and bestReps are the largest weight_kg and reps of the entries of
\* the exercise and are undefined exactly when it has no entries; entries all at
\* 0 kg give bestKg = 0.
C16_Best ==
    Loaded =>
        \A k \in 1..Len(exercises) :
            LET prs == exercises[k].prs
            IN  IF prs = <<>>
                THEN exercises[k].bestKg = None /\ exercises[k].bestReps = None
                ELSE /\ exercises[k].bestKg = Some(Largest(weightsOf(prs)))
                     /\ exercises[k].bestReps = Some(Largest(repsListOf(prs)))

----------------------------------------------------------------------------
(* Properties of extractRecordId *)

Digits == {"0", "1", "2", "3", "4", "5", "6", "7", "8", "9"}

HexLetters == {"a", "b", "c", "d", "e", "f"} \cup {"A", "B", "C", "D", "E", "F"}

\* the text ends in IdLen hexadecimal digits
EndsInId(text) ==
    /\ Len(text) >= IdLen
    /\ \A i \in (Len(text) - IdLen + 1)..Len(text) : text[i] \in Digits \cup HexLetters

\* C17: extractRecordId returns the last 24 characters of the reference when
\* they are all hexadecimal digits, in either case, and null when the reference
\* is null, empty, shorter than 24 characters or does not end in 24 hexadecimal
\* digits.
C17_Extract ==
    (refCall # None /\ refResult # None) =>
        LET url == refCall[1].url
        IN  IF url # None /\ EndsInId(url[1])
            THEN refResult[1] = Some(SubSeq(url[1], Len(url[1]) - IdLen + 1, Len(url[1])))
            ELSE refResult[1] = None

\* a record URL whose id has a capital letter
C17_Witness ==
    /\ refCall # None
    /\ refResult # None
    /\ refCall[1].url = Some(createRecordUrl(APP_ID_UEBUNGEN, Replace(IdA, 3, "E")))
    /\ refResult[1] = Some(Replace(IdA, 3, "E"))

\* null, the empty text, a short text and a text with a character behind the
\* id all give null
C17_NullCases ==
    \E url \in {None, Some(<<>>), Some(Rep("a", IdLen - 1)), Some(IdA \o <<"/">>),
                Some(Replace(IdA, IdLen, "g"))} :
        refCall = Some([url |-> url]) /\ refResult = Some(None)

----------------------------------------------------------------------------
(* Properties of entries with a date that is no date *)

\* C18: an entry whose date is a text that is no date counts towards no
\* date-keyed aggregate: totalSessions counts calendar days only, the streak's
\* week map has no key from it, prsByDate has no bucket for it; the entry stays
\* in the list of all entries.
C18_Unparseable ==
    Loaded =>
        /\ statsData # None => statsData[1].totalSessions = Cardinality(SessionDays)
        /\ None \notin DOMAIN weeklyTrainingOf(uniqueDatesOf(allPrEntries))
        /\ NoDate \notin DOMAIN prsByDate
        /\ \A i \in 1..Len(store) : \E j \in 1..Len(allPrEntries) : allPrEntries[j] = store[i]

----------------------------------------------------------------------------
(* Properties of entries whose exercise is not known *)

\* the reference of the entry names no exercise of the store
Unresolved(e) == e.exercise_id \in {None, RefGarbled, RefUnknown}

\* the name of the exercise the reference of the entry is to
NameOfRef(e) ==
    IF e.exercise_id = RefA THEN "Bankdruecken"
    ELSE IF e.exercise_id = RefB THEN "Kniebeuge"
    ELSE "?"

\* the day detail of the selected day holds every entry of that day once, an
\* entry of an unknown exercise under the label 'Unbekannt'
DayDetailComplete ==
    (Loaded /\ selectedDate # None) =>
        LET detail == prsForSelectedDate
            ofDay == {i \in 1..Len(allPrEntries) :
                        /\ allPrEntries[i].date # None
                        /\ allPrEntries[i].date[1].ymd = selectedDate}
        IN  /\ Len(detail) = Cardinality(ofDay)
            /\ \A i \in ofDay :
                  Cardinality({j \in 1..Len(detail) : detail[j].pr = allPrEntries[i]}) = 1
            /\ \A j \in 1..Len(detail) :
                  detail[j].exerciseName =
                      IF Unresolved(detail[j].pr) THEN "Unbekannt" ELSE NameOfRef(detail[j].pr)

\* the fetched entry i is in the feed of recent PRs under the label for an
\* unknown exercise
InFeedAsUnknown(i) ==
    \E j \in 1..Len(recentPRs) :
        recentPRs[j].pr = store[i] /\ recentPRs[j].exerciseName = "Unbekannte Uebung"

\* the fetched entry i is one of the RecentLimit most recent entries
AmongMostRecent(i) ==
    Cardinality({k \in 1..Len(store) : ComesBefore(store[k], store[i])}) < RecentLimit

\* C19 as stated: every entry of an unknown exercise is in the day detail of
\* its date and in the feed of recent PRs, labelled as unknown, and the day
\* detail holds every entry of the day exactly once.
C19_Original ==
    /\ DayDetailComplete
    /\ Loaded => \A i \in 1..Len(store) : Unresolved(store[i]) => InFeedAsUnknown(i)

\* C19 as amended: the same, the feed holding an entry of an unknown exercise
\* when it is one of the ten most recent entries.
C19_UnknownKept ==
    /\ DayDetailComplete
    /\ Loaded => \A i \in 1..Len(store) :
                    (Unresolved(store[i]) /\ AmongMostRecent(i)) => InFeedAsUnknown(i)

\* the day with two entries of an unknown exercise is selected
C19_Witness ==
    /\ Loaded
    /\ selectedDate = Some(20081)
    /\ Len(prsForSelectedDate) = 2
    /\ \A j \in 1..2 : /\ Unresolved(prsForSelectedDate[j].pr)
                       /\ prsForSelectedDate[j].exerciseName = "Unbekannt"
    /\ \E i \in 1..Len(store) : Unresolved(store[i]) /\ InFeedAsUnknown(i)

----------------------------------------------------------------------------
(* Properties of analyzePR on entries with missing fields *)

\* the history with every missing weight_kg and reps set to 0
ZeroFilled(prior) ==
    [i \in 1..Len(prior) |->
        [prior[i] EXCEPT !.weight_kg = Some(OrZero(prior[i].weight_kg)),
                         !.reps = Some(OrZero(prior[i].reps))]]

\* C20: analyzePR gives the same result for a history with a missing weight_kg
\* or reps as for the history with 0 in its place, also for newWeight = 0.
C20_MissingAsZero ==
    Analyzed =>
        prAnalysis[1] = analyzePR(newWeightOfCall, newRepsOfCall, ZeroFilled(priorOfCall))

----------------------------------------------------------------------------
(* Properties of the stored entry collection *)

\* C21: loadData stores the entries in the order in which they were fetched;
\* building the recency feed and the per-exercise groups does not reorder
\* allPrEntries.
C21_FetchOrder == Loaded => allPrEntries = store

----------------------------------------------------------------------------
(* Properties of the week key *)

\* C27: two session dates receive the same week key year * 100 + weekNumber if
\* and only if they lie in the same Monday-to-Sunday week, also in the last
\* days of December and the first days of January.
C27_WeekKey ==
    statsData # None =>
        \A d1, d2 \in SessionDays :
            (weekKeyOf(DateOnly(d1)) = weekKeyOf(DateOnly(d2)))
                <=> (WeekIndex(d1) = WeekIndex(d2))

----------------------------------------------------------------------------
(* Properties of the plus and minus buttons *)

AtLeastOne(value) == value # None /\ value[1] >= 1

\* C25: a press of plus or minus on reps or sets, the field being empty or
\* holding an integer, leaves an integer that is at least 1 in the field; minus
\* at 1 leaves 1 and plus on the empty field gives 1.
C25_Steppers ==
    [][\A field \in StepperFields :
          /\ formData'[field] # formData[field] => AtLeastOne(formData'[field])
          /\ formData[field] = Some(1) => formData'[field] \in {Some(1), Some(2)}
          /\ formData[field] = None => formData'[field] \in {None, Some(1)}]_vars

\* plus was pressed on an empty reps field and then again, and minus on sets
\* that held 5
C25_Witness == formData.reps = Some(2) /\ formData.sets = Some(4)

----------------------------------------------------------------------------
(* Properties of createRecordUrl *)

\* createRecordUrl and then extractRecordId have both returned
RoundTripDone == urlCall # None /\ refCall # None /\ refResult # None

\* C26: for every record id of 24 hexadecimal characters and every app id,
\* extractRecordId(createRecordUrl(appId, recordId)) is exactly recordId.
C26_RoundTrip == RoundTripDone => refResult[1] = Some(urlCall[1].recordId)

\* the round trip of an id with an upper-case letter, under the app id of the
\* PR entries
C26_Witness ==
    /\ RoundTripDone
    /\ urlCall[1].appId = APP_ID_PR_EINTRAEGE
    /\ urlCall[1].recordId = IdB
    /\ refResult[1] = Some(IdB)

----------------------------------------------------------------------------
(* Properties of a submit and the reload that follows it *)

aggregates == <<exercises, allPrEntries, recentPRs>>

\* submit s awaits its create before the step and has caught its failure after
CreateFails(s) ==
    /\ s.position = "creating"
    /\ [s EXCEPT !.position = "failed"] \in submits'

\* run r awaits its fetches before the step and has ended after it
Resolves(r) == r.position = "awaiting" /\ [r EXCEPT !.position = "resolved"] \in runs'

Rejects(r) == r.position = "awaiting" /\ [r EXCEPT !.position = "rejected"] \in runs'

\* the aggregates after the step are all three built from the two collections
\* that run r fetched
ReplacedAsAWhole(r) ==
    /\ r.uebungen.state = "ok"
    /\ r.prEintraege.state = "ok"
    /\ allPrEntries' \in SortOutcomes(r.prEintraege.data, TRUE)
    /\ exercises' \in exercisesWithPRsOutcomes(r.uebungen.data, r.prEintraege.data)
    /\ recentPRs' = recentOf(r.uebungen.data, allPrEntries')

Created == {s \in submits : s.position = "created"}

\* C22: when createPrEintraegeEntry fails during a submit, exercises,
\* allPrEntries and recentPRs stay what they were, no reload is started and no
\* success or celebration is shown; the aggregates change only by being
\* replaced as a whole by a reload, and a reload is started by a submit only
\* after its create has succeeded.
C22_FailedCreate ==
    [][/\ \A s \in submits :
             CreateFails(s) =>
                 /\ aggregates' = aggregates
                 /\ runs' = runs
                 /\ loading' = loading
                 /\ toast' # None /\ toast'[1].type = "error"
                 /\ showConfetti' = showConfetti
                 /\ confettiKey' = confettiKey
       /\ aggregates' # aggregates => \E r \in runs : Resolves(r) /\ ReplacedAsAWhole(r)
       /\ Cardinality(runs') = 1 + Cardinality({s \in submits' : s.position = "created"})]_vars

\* a create of a second entry for exercise A has failed after the Dashboard
\* had loaded: no run but the one of the mount, and the aggregates of the mount
C22_Witness ==
    /\ \E s \in submits : s.position = "failed"
    /\ Created = {}
    /\ toast = ToastError("Fehler beim Speichern")
    /\ Cardinality(runs) = 1
    /\ ~loading
    /\ Len(allPrEntries) = MaxStoreEntries - 1

\* C23: loadData replaces no stored collection or aggregate before both
\* fetches have succeeded: a run in which a fetch fails leaves exercises,
\* allPrEntries and recentPRs as they were, and whenever they change, all
\* three are built from the two collections one run fetched.
C23_BothFetches ==
    [][/\ \A r \in runs : Rejects(r) => aggregates' = aggregates
       /\ aggregates' # aggregates => \E r \in runs : Resolves(r) /\ ReplacedAsAWhole(r)]_vars

\* the reload after a create ended with the exercises not fetched and the
\* entries fetched: the Dashboard still holds the entries of before
C23_Witness ==
    \E r \in runs :
        /\ r.position = "rejected"
        /\ r.uebungen = Thrown
        /\ r.prEintraege.state = "ok"
        /\ Len(r.prEintraege.data) = MaxStoreEntries
        /\ Len(allPrEntries) = MaxStoreEntries - 1
        /\ Len(exercises[1].prs) = 1

\* the submit that is in submits after the step and was not before it
Submitted(s) == s \in submits' /\ \A t \in submits : t.id # s.id

\* submit s awaits its create before the step and has shown its feedback after
CreateSucceeds(s) ==
    /\ s.position = "creating"
    /\ [s EXCEPT !.position = "created"] \in submits'

\* the entries of the exercise with record id id as the Dashboard holds them
LoadedEntriesOf(id) ==
    SelectSeq(allPrEntries, LAMBDA e : extractRecordId(e.exercise_id) = Some(id))

\* the entries of the store first\o<<e>> for some e made of fields
AppendsOne(first, entries, fields) ==
    entries = Append(first, createdEntry(first, fields))

\* C24: handleSubmitPR computes the classification from the entries of the
\* exercise as loaded, before createPrEintraegeEntry is called; computing it
\* creates nothing and changes no state; the create is carried out once
\* whatever the classification; the classification only selects the feedback
\* shown once the create has succeeded: the celebration when a flag is true,
\* the plain confirmation otherwise.
C24_ClassifyThenCreate ==
    [][/\ \A s \in submits' :
             Submitted(s) =>
                 /\ ~s.stored
                 /\ store' = store
                 /\ aggregates' = aggregates
                 /\ toast' = toast /\ showConfetti' = showConfetti
                 /\ s.prAnalysis =
                       IF \E k \in 1..Len(exercises) : exercises[k].record_id = formData.exercise_id
                       THEN Some(analyzePR(formData.weight_kg[1], formData.reps[1],
                                           LoadedEntriesOf(formData.exercise_id)))
                       ELSE None
       /\ store' # store =>
             \E s \in submits :
                 /\ ~s.stored
                 /\ [s EXCEPT !.stored = TRUE] \in submits'
                 /\ AppendsOne(store, store', s.data)
       /\ \A s \in submits :
             CreateSucceeds(s) =>
                 /\ s.stored
                 /\ toast' # None /\ toast'[1].type = "success"
                 /\ LET flags == s.prAnalysis # None /\
                                 (s.prAnalysis[1].isWeightPR \/ s.prAnalysis[1].isVolumePR
                                     \/ s.prAnalysis[1].isRepPR)
                    IN  IF flags
                        THEN /\ showConfetti'
                             /\ confettiKey' = confettiKey + 1
                             /\ toast'[1].prTypes # <<>>
                        ELSE /\ toast' = ToastSuccess("Eingetragen!", <<>>)
                             /\ showConfetti' = showConfetti
                             /\ confettiKey' = confettiKey
       /\ (toast' # toast /\ toast' # None /\ toast'[1].type = "success")
             => \E s \in submits : CreateSucceeds(s)]_vars

\* a heavier entry for exercise A was classified a weight PR against the one
\* loaded entry, created once, and celebrated
C24_Witness ==
    \E s \in submits :
        /\ s.position = "created"
        /\ s.prAnalysis # None
        /\ s.prAnalysis[1].isWeightPR
        /\ Len(store) = MaxStoreEntries
        /\ showConfetti
        /\ toast = ToastSuccess("Neuer", <<"Gewichts-PR", "Volumen-PR">>)

\* an entry that beats nothing was created and confirmed plainly
C24_PlainWitness ==
    \E s \in submits :
        /\ s.position = "created"
        /\ s.prAnalysis # None
        /\ ~showConfetti
        /\ toast = ToastSuccess("Eingetragen!", <<>>)

\* every loaded entry that was created for the exercise with record id
\* exercises[k].record_id is in the group of exercises[k]
GroupedUnderSubmitted ==
    \A k \in 1..Len(exercises) : \A i \in 1..Len(allPrEntries) :
        allPrEntries[i].exercise_id
              = dataOf([formData EXCEPT !.exercise_id = exercises[k].record_id]).exercise_id
            => \E j \in 1..Len(exercises[k].prs) : exercises[k].prs[j] = allPrEntries[i]

\* a created entry has been reloaded
SubmittedReloaded == Len(allPrEntries) = MaxStoreEntries /\ Len(exercises[1].prs) = 2

----------------------------------------------------------------------------
(* Properties of the exercise-detail view and of overlapping reloads *)

\* no submit awaits its create and no loadData run awaits its fetches
Settled ==
    /\ \A s \in submits : s.position # "creating"
    /\ \A r \in runs : r.position # "awaiting"

\* the exercises of the current list with the record id of the selected one
SameIdAsSelected == {k \in 1..Len(exercises) : exercises[k].record_id = selectedExercise[1].record_id}

\* C28: after a successful submit and the completed reload, the prs, bestKg
\* and lastPR of a selectedExercise that is not null are those of the exercise
\* with the same id in the current exercises list.
C28_DetailConsistent ==
    (Settled /\ Created # {} /\ selectedExercise # None) =>
        \A k \in SameIdAsSelected :
            /\ selectedExercise[1].prs = exercises[k].prs
            /\ selectedExercise[1].bestKg = exercises[k].bestKg
            /\ selectedExercise[1].lastPR = exercises[k].lastPR

\* the runs that have stored what they fetched
ResolvedRuns == {r \in runs : r.position = "resolved"}

\* the one of them that was started last
LastStarted == CHOOSE r \in ResolvedRuns : \A q \in ResolvedRuns : q.id <= r.id

\* C29: when loadData runs overlap, the stored collections and aggregates are
\* those of the run that was started last of the runs that have completed: what
\* an earlier-started run fetched never overwrites what a later-started run
\* fetched.
C29_LastStartedWins ==
    ResolvedRuns # {} =>
        /\ allPrEntries \in SortOutcomes(LastStarted.prEintraege.data, TRUE)
        /\ exercises \in exercisesWithPRsOutcomes(LastStarted.uebungen.data,
                                                  LastStarted.prEintraege.data)
        /\ recentPRs = recentOf(LastStarted.uebungen.data, allPrEntries)

----------------------------------------------------------------------------
(* Properties of the ends of loadData and handleSubmit *)

\* some loadData run awaits its fetches
RunAwaiting == \E r \in runs : r.position = "awaiting"

\* C30: every loadData run ends, whether both fetches succeed or one fails, and
\* at its end loading is false; in the dialog Dashboard every handleSubmit
\* that has passed the validation ends with submitting false, whether the
\* create and the reload succeed or fail.
C30_Ends ==
    /\ RunAwaiting ~> ~RunAwaiting
    /\ [][\A r \in runs : (Resolves(r) \/ Rejects(r)) => ~loading']_vars
    /\ submitting ~> ~submitting

\* a handleSubmit whose create succeeded and whose reload failed has ended
C30_Witness ==
    /\ \E s \in submits : s.position = "created"
    /\ \E r \in runs : r.awaited /\ r.position = "rejected"
    /\ ~loading
    /\ ~submitting

\* the same for a create that failed
DialogFailedCreate ==
    [][\A s \in submits :
          CreateFails(s) =>
              /\ dialogData' = dialogData
              /\ topUebungen' = topUebungen
              /\ runs' = runs
              /\ loading' = loading
              /\ dialogOpen' = dialogOpen
              /\ ~submitting']_vars

\* a loadData run of the sheet Dashboard leaves loading false at its end
LoadingClearedAtEnd ==
    [][\A r \in runs : (Resolves(r) \/ Rejects(r)) => ~loading']_vars

====
